---- MODULE Spec2Model ----
(***************************************************************************)
(* ThingID: IoT device identities and time-boxed viewer access passes.     *)
(*                                                                         *)
(* Two independent programs of the repository are modelled:                *)
(*   - the on-chain contract  contracts/ThingID.sol                        *)
(*   - the in-memory REST backend  backend/server.js                       *)
(* A behaviour runs one of them (variable `system`): the contract, next to  *)
(* a server that was not started, or the server, next to untouched storage.*)
(***************************************************************************)
EXTENDS Integers, Sequences, FiniteSets, TLC

VARIABLES
    system,             \* which program this behaviour runs: "contract" | "backend"
    \* ---- contract storage (ThingID.sol) ----
    devices,            \* mapping(bytes32 => Device), the written keys only
    ownerDevices,       \* mapping(address => bytes32[]), the non-empty entries only
    deviceAccessPasses, \* mapping(bytes32 => AccessPass[]), the non-empty entries only
    viewerAccess,       \* mapping(bytes32 => mapping(address => uint256)), non-zero entries only
    allDeviceIds,       \* bytes32[]
    now,                \* block.timestamp
    \* ---- backend store (server.js) ----
    db,                 \* the in-memory database object
    clock               \* Date.now(), in milliseconds

chainVars   == <<devices, ownerDevices, deviceAccessPasses, viewerAccess, allDeviceIds, now>>
chainStore  == <<devices, ownerDevices, deviceAccessPasses, viewerAccess, allDeviceIds>>
backendVars == <<db, clock>>
vars        == <<system, devices, ownerDevices, deviceAccessPasses, viewerAccess, allDeviceIds,
                 now, db, clock>>

(***************************************************************************)
(* Bounds of the model                                                     *)
(***************************************************************************)
Genesis    == 1     \* block.timestamp of the first modelled block
MaxDevices == 2     \* device records the contract storage may hold
MaxRecords == 3     \* device records plus access-pass records the contract storage may hold

(***************************************************************************)
(* Contract: constants, identities, inputs                                 *)
(***************************************************************************)
MaxDuration == 365 * 24 * 60 * 60       \* "365 days"

ZeroAddress == "0x0"
Address     == {ZeroAddress, "A", "B"}
Senders     == {"A", "B"}               \* msg.sender: accounts that sign transactions

DidInputs      == {"", "d1"}
NameInputs     == {"", "n1"}
NewNameInputs  == {"", "n2"}
LocationInputs == {"l1"}
NewLocationInputs == {"l2"}
DurationInputs == {0, 1, MaxDuration, MaxDuration + 1}
\* Timestamps of the blocks explored: the first block, one second later, and one
\* MaxDuration after the first block.
BlockTimes     == {Genesis, Genesis + 1, Genesis + MaxDuration}

\* keccak256(abi.encodePacked(_did, msg.sender, block.timestamp)): the packed
\* encoding is injective on (string, address, uint256) and the hash is taken to
\* be collision free, so the id is the triple itself.
DeviceIdOf(did, sender, ts) == <<did, sender, ts>>

\* A bytes32 that is the id of no device.
UnknownId == <<"none", ZeroAddress, 0>>
DeviceIdInputs == DOMAIN devices \cup {UnknownId}

ZeroDevice ==
    [did |-> "", name |-> "", deviceType |-> "", manufacturer |-> "", model |-> "",
     serialNumber |-> "", location |-> "", publicKey |-> "", owner |-> ZeroAddress,
     registeredAt |-> 0, isActive |-> FALSE]

\* Reads of the mappings: an unwritten key reads as the zero value.
DeviceAt(d)        == IF d \in DOMAIN devices THEN devices[d] ELSE ZeroDevice
PassesAt(d)        == IF d \in DOMAIN deviceAccessPasses THEN deviceAccessPasses[d] ELSE <<>>
OwnerDevicesAt(a)  == IF a \in DOMAIN ownerDevices THEN ownerDevices[a] ELSE <<>>
ViewerAccessAt(d, v) == IF <<d, v>> \in DOMAIN viewerAccess THEN viewerAccess[<<d, v>>] ELSE 0

\* A mapping write; writing the zero value leaves the key unwritten.
Put(m, k, val, zero) ==
    IF val = zero
    THEN [x \in DOMAIN m \ {k} |-> m[x]]
    ELSE [x \in DOMAIN m \cup {k} |-> IF x = k THEN val ELSE m[x]]

\* The receipt of a transaction: the revert reason ("" when it succeeded) and the
\* events it emitted (a reverted transaction emits none).
Receipt(err, logs) == [err |-> err, logs |-> IF err = "" THEN logs ELSE <<>>]

\* Records held by the storage: devices and access passes.
RECURSIVE SumLen(_, _)
SumLen(f, keys) ==
    IF keys = {} THEN 0
    ELSE LET k == CHOOSE x \in keys : TRUE IN Len(f[k]) + SumLen(f, keys \ {k})

StorageRecords == Len(allDeviceIds) + SumLen(deviceAccessPasses, DOMAIN deviceAccessPasses)

(***************************************************************************)
(* Contract: modifiers                                                     *)
(***************************************************************************)
\* Variant: a viewer holding an unexpired pass passes for the owner.
onlyDeviceOwner_OrViewer(d, sender) ==
    DeviceAt(d).owner = sender \/ ViewerAccessAt(d, sender) > now

onlyDeviceOwner(d, sender) == DeviceAt(d).owner = sender
deviceExists(d)            == DeviceAt(d).owner # ZeroAddress
deviceActive(d)            == DeviceAt(d).isActive

(***************************************************************************)
(* Contract: view functions                                                *)
(***************************************************************************)
\* Variant: the expiry instant still counts as valid.
hasAccess_Inclusive(d, v) ==
    IF DeviceAt(d).owner = v
    THEN TRUE
    ELSE LET expiresAt == ViewerAccessAt(d, v) IN expiresAt >= now

\* Variant: no shortcut for the owner.
hasAccess_NoOwner(d, v) ==
    LET expiresAt == ViewerAccessAt(d, v) IN expiresAt > now

\* Variant: a pass counts only while the device is active.
hasAccess_ActiveOnly(d, v) ==
    IF DeviceAt(d).owner = v
    THEN TRUE
    ELSE LET expiresAt == ViewerAccessAt(d, v) IN DeviceAt(d).isActive /\ expiresAt > now

\* hasAccess(deviceId, viewer); the call reverts unless deviceExists(deviceId).
hasAccess(d, v) ==
    IF DeviceAt(d).owner = v
    THEN TRUE
    ELSE LET expiresAt == ViewerAccessAt(d, v) IN expiresAt > now

\* The deviceExists modifier of hasAccess: the revert reason, "" when it passes.
hasAccessError(d) == IF ~deviceExists(d) THEN "Device does not exist" ELSE ""

\* getDevice(deviceId) and its deviceExists modifier.
getDeviceError(d) == IF ~deviceExists(d) THEN "Device does not exist" ELSE ""

getDevice(d) == DeviceAt(d)

\* The deviceExists modifier of getDeviceAccessPasses.
getDeviceAccessPassesError(d) == IF ~deviceExists(d) THEN "Device does not exist" ELSE ""

\* Variant: an expiry that has passed is reported as 0.
getAccessExpiration_Live(d, v) ==
    IF ViewerAccessAt(d, v) > now THEN ViewerAccessAt(d, v) ELSE 0

getAccessExpiration(d, v) == ViewerAccessAt(d, v)

\* getDeviceAccessPasses(deviceId); reverts unless deviceExists(deviceId).
getDeviceAccessPasses(d) == PassesAt(d)

getOwnerDevices(a) == OwnerDevicesAt(a)

getTotalDevices == Len(allDeviceIds)

\* The uint256 index values tried.
IndexInputs == 0..(MaxDevices + 1)

\* Variant: the enumeration starts from the newest device.
getDeviceByIndex_NewestFirst(index) ==
    IF ~(index < Len(allDeviceIds))
    THEN [err |-> "Index out of bounds", deviceId |-> UnknownId]
    ELSE [err |-> "", deviceId |-> allDeviceIds[Len(allDeviceIds) - index]]

\* getDeviceByIndex(index): the revert reason ("" when there is none) and the id
\* returned (a reverted call returns nothing; the field then holds no device's id).
getDeviceByIndex(index) ==
    IF ~(index < Len(allDeviceIds))
    THEN [err |-> "Index out of bounds", deviceId |-> UnknownId]
    ELSE [err |-> "", deviceId |-> allDeviceIds[index + 1]]

(***************************************************************************)
(* Contract: registerDevice                                                *)
(***************************************************************************)
\* Variant: registerDevice without the check of the name.
RegisterDeviceError_AnyName(sender, did, name) ==
    IF ~(Len(did) > 0) THEN "DID cannot be empty"
    ELSE IF ~(DeviceAt(DeviceIdOf(did, sender, now)).owner = ZeroAddress) THEN "Device ID collision"
    ELSE ""

\* Variant: registerDevice without the collision check.
RegisterDeviceError_NoCollision(sender, did, name) ==
    IF ~(Len(did) > 0) THEN "DID cannot be empty"
    ELSE IF ~(Len(name) > 0) THEN "Name cannot be empty"
    ELSE ""

\* The require statements of registerDevice, in order; "" when all pass.
RegisterDeviceError(sender, did, name) ==
    IF ~(Len(did) > 0) THEN "DID cannot be empty"
    ELSE IF ~(Len(name) > 0) THEN "Name cannot be empty"
    ELSE IF ~(DeviceAt(DeviceIdOf(did, sender, now)).owner = ZeroAddress) THEN "Device ID collision"
    ELSE ""

NewDevice(sender, did, name, location) ==
    [did |-> did, name |-> name, deviceType |-> "sensor", manufacturer |-> "m", model |-> "x",
     serialNumber |-> "s", location |-> location, publicKey |-> "k", owner |-> sender,
     registeredAt |-> now, isActive |-> TRUE]

\* Variant: the new id goes to the front of the owner's list.
OwnerIndexWrite_Front(sender, deviceId) ==
    Put(ownerDevices, sender, <<deviceId>> \o OwnerDevicesAt(sender), <<>>)

\* ownerDevices[msg.sender].push(deviceId)
OwnerIndexWrite(sender, deviceId) ==
    Put(ownerDevices, sender, Append(OwnerDevicesAt(sender), deviceId), <<>>)

DeviceRegisteredEvent(d, did, sender, name) ==
    [kind |-> "DeviceRegistered", deviceId |-> d, did |-> did, owner |-> sender, name |-> name,
     deviceType |-> "sensor", timestamp |-> now]

registerDeviceReceipt(sender, did, name, location) ==
    Receipt(RegisterDeviceError(sender, did, name), <<DeviceRegisteredEvent(DeviceIdOf(did, sender, now), did, sender, name)>>)

registerDevice(sender, did, name, location) ==
    LET deviceId == DeviceIdOf(did, sender, now)
        err      == RegisterDeviceError(sender, did, name)
    IN  /\ system = "contract"
        /\ err = "" => (Len(allDeviceIds) < MaxDevices /\ StorageRecords < MaxRecords)
        /\ IF err = ""
           THEN /\ devices' = Put(devices, deviceId, NewDevice(sender, did, name, location), ZeroDevice)
                /\ ownerDevices' = OwnerIndexWrite(sender, deviceId)
                /\ allDeviceIds' = Append(allDeviceIds, deviceId)
                /\ UNCHANGED <<deviceAccessPasses, viewerAccess>>
           ELSE UNCHANGED chainStore
        /\ UNCHANGED <<now, system, backendVars>>

(***************************************************************************)
(* Contract: grantAccess                                                   *)
(***************************************************************************)
\* Variant: the upper bound is exclusive.
ValidDuration_Exclusive(duration) == duration > 0 /\ duration < MaxDuration

\* Variant: a duration of zero is let through.
ValidDuration_ZeroAllowed(duration) == duration >= 0 /\ duration <= MaxDuration

\* require(duration > 0 && duration <= 365 days)
ValidDuration(duration) == duration > 0 /\ duration <= MaxDuration

\* Variant: a viewer whose index entry is not 0 must be revoked before a new grant.
GrantAccessError_NoRegrant(sender, d, viewer, duration) ==
    IF ~deviceExists(d) THEN "Device does not exist"
    ELSE IF ~onlyDeviceOwner(d, sender) THEN "Not device owner"
    ELSE IF ~deviceActive(d) THEN "Device is not active"
    ELSE IF ~(viewer # ZeroAddress) THEN "Invalid viewer address"
    ELSE IF ~(viewer # sender) THEN "Cannot grant access to self"
    ELSE IF ~ValidDuration(duration) THEN "Invalid duration"
    ELSE IF ViewerAccessAt(d, viewer) # 0 THEN "Access already granted"
    ELSE ""

\* Variant: grantAccess without the deviceActive modifier.
GrantAccessError_IgnoreActive(sender, d, viewer, duration) ==
    IF ~deviceExists(d) THEN "Device does not exist"
    ELSE IF ~onlyDeviceOwner(d, sender) THEN "Not device owner"
    ELSE IF ~(viewer # ZeroAddress) THEN "Invalid viewer address"
    ELSE IF ~(viewer # sender) THEN "Cannot grant access to self"
    ELSE IF ~ValidDuration(duration) THEN "Invalid duration"
    ELSE ""

\* The modifiers and require statements of grantAccess, in order; "" when all pass.
GrantAccessError(sender, d, viewer, duration) ==
    IF ~deviceExists(d) THEN "Device does not exist"
    ELSE IF ~onlyDeviceOwner(d, sender) THEN "Not device owner"
    ELSE IF ~deviceActive(d) THEN "Device is not active"
    ELSE IF ~(viewer # ZeroAddress) THEN "Invalid viewer address"
    ELSE IF ~(viewer # sender) THEN "Cannot grant access to self"
    ELSE IF ~ValidDuration(duration) THEN "Invalid duration"
    ELSE ""

\* uint256 expiresAt = block.timestamp + duration
GrantExpiresAt(duration) == now + duration

NewAccessPass(sender, viewer, expiresAt) ==
    [device_owner |-> sender, viewer |-> viewer, grantedAt |-> now, expiresAt |-> expiresAt,
     isActive |-> TRUE]

\* Variant: the new pass replaces the history.
GrantHistoryWrite_Overwrite(d, pass) == Put(deviceAccessPasses, d, <<pass>>, <<>>)

\* deviceAccessPasses[deviceId].push(pass)
GrantHistoryWrite(d, pass) == Put(deviceAccessPasses, d, Append(PassesAt(d), pass), <<>>)

\* Variant: the index keeps the later of the old and the new expiry.
GrantIndexWrite_Max(d, viewer, expiresAt) ==
    Put(viewerAccess, <<d, viewer>>,
        IF ViewerAccessAt(d, viewer) > expiresAt THEN ViewerAccessAt(d, viewer) ELSE expiresAt, 0)

\* Variant: the index entry is written under the owner's key.
GrantIndexWrite_OwnerKey(d, viewer, expiresAt) ==
    Put(viewerAccess, <<d, DeviceAt(d).owner>>, expiresAt, 0)

\* viewerAccess[deviceId][viewer] = expiresAt
GrantIndexWrite(d, viewer, expiresAt) == Put(viewerAccess, <<d, viewer>>, expiresAt, 0)

\* Variant: the event reports the duration's end counted from 0, not from now.
AccessGrantedEvent_Relative(d, sender, viewer, expiresAt) ==
    [kind |-> "AccessGranted", deviceId |-> d, owner |-> sender, viewer |-> viewer,
     expiresAt |-> expiresAt - now, timestamp |-> now]

AccessGrantedEvent(d, sender, viewer, expiresAt) ==
    [kind |-> "AccessGranted", deviceId |-> d, owner |-> sender, viewer |-> viewer,
     expiresAt |-> expiresAt, timestamp |-> now]

grantAccessReceipt(sender, d, viewer, duration) ==
    Receipt(GrantAccessError(sender, d, viewer, duration), <<AccessGrantedEvent(d, sender, viewer, GrantExpiresAt(duration))>>)

grantAccess(sender, d, viewer, duration) ==
    LET err       == GrantAccessError(sender, d, viewer, duration)
        expiresAt == GrantExpiresAt(duration)
    IN  /\ system = "contract"
        /\ err = "" => StorageRecords < MaxRecords
        /\ IF err = ""
           THEN /\ deviceAccessPasses' = GrantHistoryWrite(d, NewAccessPass(sender, viewer, expiresAt))
                /\ viewerAccess' = GrantIndexWrite(d, viewer, expiresAt)
                /\ UNCHANGED <<devices, ownerDevices, allDeviceIds>>
           ELSE UNCHANGED chainStore
        /\ UNCHANGED <<now, system, backendVars>>

(***************************************************************************)
(* Contract: revokeAccess                                                  *)
(***************************************************************************)
\* Variant: revokeAccess without the onlyDeviceOwner modifier.
RevokeAccessError_AnyCaller(sender, d) ==
    IF ~deviceExists(d) THEN "Device does not exist" ELSE ""

\* Variant: the caller is checked before the device.
RevokeAccessError_OwnerFirst(sender, d) ==
    IF ~onlyDeviceOwner(d, sender) THEN "Not device owner"
    ELSE IF ~deviceExists(d) THEN "Device does not exist"
    ELSE ""

RevokeAccessError(sender, d) ==
    IF ~deviceExists(d) THEN "Device does not exist"
    ELSE IF ~onlyDeviceOwner(d, sender) THEN "Not device owner"
    ELSE ""

\* Variant: the revoke of the in-memory backend, which brings an unexpired
\* expiry down to the current time.
RevokeIndexWrite_Expire(d, viewer) ==
    Put(viewerAccess, <<d, viewer>>,
        IF ViewerAccessAt(d, viewer) > now THEN now ELSE ViewerAccessAt(d, viewer), 0)

\* Variant: a soft delete that stamps the entry with the current time.
RevokeIndexWrite_Now(d, viewer) == Put(viewerAccess, <<d, viewer>>, now, 0)

\* viewerAccess[deviceId][viewer] = 0
RevokeIndexWrite(d, viewer) == Put(viewerAccess, <<d, viewer>>, 0, 0)

AccessRevokedEvent(d, viewer) ==
    [kind |-> "AccessRevoked", deviceId |-> d, viewer |-> viewer, timestamp |-> now]

revokeAccessReceipt(sender, d, viewer) ==
    Receipt(RevokeAccessError(sender, d), <<AccessRevokedEvent(d, viewer)>>)

revokeAccess(sender, d, viewer) ==
    LET err == RevokeAccessError(sender, d)
    IN  /\ system = "contract"
        /\ IF err = ""
           THEN /\ viewerAccess' = RevokeIndexWrite(d, viewer)
                /\ UNCHANGED <<devices, ownerDevices, deviceAccessPasses, allDeviceIds>>
           ELSE UNCHANGED chainStore
        /\ UNCHANGED <<now, system, backendVars>>

(***************************************************************************)
(* Contract: updateDevice, toggleDeviceStatus                              *)
(***************************************************************************)
\* Variant: the name is checked before the caller.
UpdateDeviceError_NameFirst(sender, d, name) ==
    IF ~deviceExists(d) THEN "Device does not exist"
    ELSE IF ~(Len(name) > 0) THEN "Name cannot be empty"
    ELSE IF ~onlyDeviceOwner(d, sender) THEN "Not device owner"
    ELSE ""

UpdateDeviceError(sender, d, name) ==
    IF ~deviceExists(d) THEN "Device does not exist"
    ELSE IF ~onlyDeviceOwner(d, sender) THEN "Not device owner"
    ELSE IF ~(Len(name) > 0) THEN "Name cannot be empty"
    ELSE ""

\* Variant: the update rewrites the whole record and stamps it anew.
UpdatedDevice_Restamp(d, name, location) ==
    [DeviceAt(d) EXCEPT !.name = name, !.location = location, !.registeredAt = now]

\* devices[deviceId].name = _name; devices[deviceId].location = _location
UpdatedDevice(d, name, location) == [DeviceAt(d) EXCEPT !.name = name, !.location = location]

DeviceUpdatedEvent(d, name, location) ==
    [kind |-> "DeviceUpdated", deviceId |-> d, name |-> name, location |-> location, timestamp |-> now]

updateDeviceReceipt(sender, d, name, location) ==
    Receipt(UpdateDeviceError(sender, d, name), <<DeviceUpdatedEvent(d, name, location)>>)

updateDevice(sender, d, name, location) ==
    LET err == UpdateDeviceError(sender, d, name)
    IN  /\ system = "contract"
        /\ IF err = ""
           THEN /\ devices' = Put(devices, d, UpdatedDevice(d, name, location), ZeroDevice)
                /\ UNCHANGED <<ownerDevices, deviceAccessPasses, viewerAccess, allDeviceIds>>
           ELSE UNCHANGED chainStore
        /\ UNCHANGED <<now, system, backendVars>>

ToggleDeviceStatusError(sender, d) ==
    IF ~deviceExists(d) THEN "Device does not exist"
    ELSE IF ~onlyDeviceOwner(d, sender) THEN "Not device owner"
    ELSE ""

\* Variant: the call only ever deactivates.
ToggledDevice_Deactivate(d) == [DeviceAt(d) EXCEPT !.isActive = FALSE]

\* Variant: a toggle of an active device deletes its record.
ToggledDevice_Delete(d) ==
    IF DeviceAt(d).isActive THEN ZeroDevice ELSE [DeviceAt(d) EXCEPT !.isActive = TRUE]

\* devices[deviceId].isActive = !devices[deviceId].isActive
ToggledDevice(d) == [DeviceAt(d) EXCEPT !.isActive = ~DeviceAt(d).isActive]

DeviceStatusChangedEvent(d, isActive) ==
    [kind |-> "DeviceStatusChanged", deviceId |-> d, isActive |-> isActive, timestamp |-> now]

toggleDeviceStatusReceipt(sender, d) ==
    Receipt(ToggleDeviceStatusError(sender, d), <<DeviceStatusChangedEvent(d, ToggledDevice(d).isActive)>>)

toggleDeviceStatus(sender, d) ==
    LET err == ToggleDeviceStatusError(sender, d)
    IN  /\ system = "contract"
        /\ IF err = ""
           THEN /\ devices' = Put(devices, d, ToggledDevice(d), ZeroDevice)
                /\ UNCHANGED <<ownerDevices, deviceAccessPasses, viewerAccess, allDeviceIds>>
           ELSE UNCHANGED chainStore
        /\ UNCHANGED <<now, system, backendVars>>

(***************************************************************************)
(* Contract: the passage of block time                                     *)
(***************************************************************************)
\* A later block: block.timestamp advances, storage stays.
Mine(t) ==
    /\ system = "contract"
    /\ t > now
    /\ now' = t
    /\ UNCHANGED <<chainStore, system, backendVars>>

ChainInit ==
    /\ devices = << >>
    /\ ownerDevices = << >>
    /\ deviceAccessPasses = << >>
    /\ viewerAccess = << >>
    /\ allDeviceIds = << >>
    /\ now = Genesis

\* Some call among the inputs explored reverts in this state.
SomeCallReverts ==
    \/ \E sender \in Senders, did \in DidInputs, name \in NameInputs :
          RegisterDeviceError(sender, did, name) # ""
    \/ \E sender \in Senders, d \in DeviceIdInputs, viewer \in Address, duration \in DurationInputs :
          GrantAccessError(sender, d, viewer, duration) # ""
    \/ \E sender \in Senders, d \in DeviceIdInputs : RevokeAccessError(sender, d) # ""
    \/ \E sender \in Senders, d \in DeviceIdInputs, name \in NewNameInputs :
          UpdateDeviceError(sender, d, name) # ""
    \/ \E sender \in Senders, d \in DeviceIdInputs : ToggleDeviceStatusError(sender, d) # ""

\* A call that reverts: whichever function and arguments it was, every function
\* above leaves storage, log and block time as they were, so all reverted calls
\* are this one step.
Reverted ==
    /\ system = "contract"
    /\ IF SomeCallReverts THEN UNCHANGED vars ELSE FALSE

\* The calls that succeed, function by function, the calls that revert, and the
\* passage of time.
ChainNext ==
    \/ \E sender \in Senders, did \in DidInputs, name \in NameInputs, location \in LocationInputs :
          RegisterDeviceError(sender, did, name) = "" /\ registerDevice(sender, did, name, location)
    \/ \E sender \in Senders, d \in DeviceIdInputs, viewer \in Address, duration \in DurationInputs :
          GrantAccessError(sender, d, viewer, duration) = "" /\ grantAccess(sender, d, viewer, duration)
    \/ \E sender \in Senders, d \in DeviceIdInputs, viewer \in Address :
          RevokeAccessError(sender, d) = "" /\ revokeAccess(sender, d, viewer)
    \/ \E sender \in Senders, d \in DeviceIdInputs, name \in NewNameInputs, location \in NewLocationInputs :
          UpdateDeviceError(sender, d, name) = "" /\ updateDevice(sender, d, name, location)
    \/ \E sender \in Senders, d \in DeviceIdInputs :
          ToggleDeviceStatusError(sender, d) = "" /\ toggleDeviceStatus(sender, d)
    \/ Reverted
    \/ \E t \in BlockTimes : Mine(t)


(***************************************************************************)
(* Backend (server.js): JSON values, identities, inputs                    *)
(***************************************************************************)
\* A value of a JSON request body or of a URL/header, with its JavaScript type.
Undefined == [t |-> "undefined", n |-> 0, s |-> ""]
Num(n)    == [t |-> "number", n |-> n, s |-> ""]
Str(str)  == [t |-> "string", n |-> 0, s |-> str]

\* !x is false: neither undefined, nor 0, nor "".
Truthy(x) ==
    CASE x.t = "undefined" -> FALSE
      [] x.t = "number"    -> x.n # 0
      [] x.t = "string"    -> x.s # ""

\* x.toLowerCase is a function: x is a string (anything else throws a TypeError).
HasToLowerCase(x) == x.t = "string"

\* The addresses of the sample data are mixed-case hex strings; they are
\* abbreviated, upper-case letters standing for the upper-case hex digits.
SampleOwnerA  == "0xA1"     \* owner of sample devices 1 and 3
SampleOwnerB  == "0xB2"     \* owner of sample device 2
SampleViewer1 == "0xV1"     \* viewer of APASS-001
SampleViewer2 == "0xV2"     \* viewer of APASS-002

\* String.prototype.toLowerCase on the strings of the model.
toLowerCase(str) ==
    CASE str = "0xA1" -> "0xa1"
      [] str = "0xB2" -> "0xb2"
      [] str = "0xV1" -> "0xv1"
      [] str = "0xV2" -> "0xv2"
      [] OTHER        -> str

\* x.includes is a function: x is a string (a number or undefined has none).
HasIncludes(x) == x.t = "string"

\* parseInt on a number or on a string of digits.
parseInt(x) ==
    CASE x.t = "number" -> x.n
      [] x = Str("1")   -> 1
      [] x = Str("2")   -> 2

\* `DCERT-${String(n).padStart(3, '0')}` and `APASS-${String(n).padStart(3, '0')}`:
\* the prefix and the number, which the padding keeps distinct for distinct n.
CertIdOf(n) == <<"DCERT", n>>
PassIdOf(n) == <<"APASS", n>>

BootTime == 259200000       \* Date.now() when the server starts, from an origin 3 days earlier

\* Date.now() at the requests explored: at start, 1 s later, when APASS-001 expires.
ClockTimes == {BootTime, BootTime + 1000, BootTime + 1800000}

MaxStoredIds == 6           \* ids the store may hand out, devices and passes together (5 are sample data)

SampleDevices ==
    << [id |-> 1, did |-> "did:didlab:device-temp-sensor-001", pubKey |-> "0x04a8", make |-> "SensorCo",
        model |-> Str("TempSensor-S1"), owner |-> SampleOwnerA, certId |-> CertIdOf(1),
        issuedAt |-> BootTime - 86400000, metadata |-> "Building A - Floor 3"],
       [id |-> 2, did |-> "did:didlab:device-motion-detector-002", pubKey |-> "0x04b7", make |-> "SecureNet",
        model |-> Str("MotionGuard-Pro"), owner |-> SampleOwnerB, certId |-> CertIdOf(2),
        issuedAt |-> BootTime - 172800000, metadata |-> "Warehouse B - Entry Point"],
       [id |-> 3, did |-> "did:didlab:device-humidity-sensor-003", pubKey |-> "0x04c9", make |-> "EnviroTech",
        model |-> Str("HumidityTracker-X"), owner |-> SampleOwnerA, certId |-> CertIdOf(3),
        issuedAt |-> BootTime - 259200000, metadata |-> "Greenhouse Section C"] >>

SamplePasses ==
    << [id |-> 1, passId |-> PassIdOf(1), deviceId |-> 1, deviceDid |-> "did:didlab:device-temp-sensor-001",
        viewer |-> SampleViewer1, grantedBy |-> SampleOwnerA,
        grantedAt |-> BootTime - 1800000, expiresAt |-> BootTime + 1800000],
       [id |-> 2, passId |-> PassIdOf(2), deviceId |-> 1, deviceDid |-> "did:didlab:device-temp-sensor-001",
        viewer |-> SampleViewer2, grantedBy |-> SampleOwnerA,
        grantedAt |-> BootTime - 3600000, expiresAt |-> BootTime - 600000] >>

\* const db = {...}: the store of a server that was not started.
BackendOff ==
    /\ db = [devices |-> <<>>, accessPasses |-> <<>>, deviceIdCounter |-> 0, passIdCounter |-> 0]
    /\ clock = BootTime

\* initializeSampleData()
BackendInit ==
    /\ db = [devices |-> SampleDevices, accessPasses |-> SamplePasses,
             deviceIdCounter |-> 3, passIdCounter |-> 2]
    /\ clock = BootTime

\* Array.prototype.find / findIndex over the positions that pass the test: the
\* first of them, 0 when there is none.
FindIndex(matches) ==
    IF matches = {} THEN 0 ELSE CHOOSE i \in matches : \A j \in matches : i <= j

\* Ids handed out so far.
StoredIds == db.deviceIdCounter + db.passIdCounter

\* An HTTP response: the status and the body's error text ("" on success).
Response(status, error) == [status |-> status, error |-> error]

\* A handler that throws ends in the error-handling middleware.
InternalServerError == Response(500, "Internal server error")

DeviceDid1  == "did:didlab:device-temp-sensor-001"
DeviceDid2  == "did:didlab:device-motion-detector-002"
NewDid      == "did:didlab:device-new"
UnknownDid  == "did:didlab:unknown"

\* Tick: Date.now() at a later request.
Tick(t) ==
    /\ system = "backend"
    /\ t > clock
    /\ clock' = t
    /\ UNCHANGED <<db, system, chainVars>>

(***************************************************************************)
(* Backend: POST /api/devices/issue                                        *)
(***************************************************************************)
DeviceByDid(did) == FindIndex({i \in DOMAIN db.devices : db.devices[i].did = did})

\* Variant: the handler without the search for the DID.
IssueOutcome_NoDidCheck(did, pubKey, make, model, owner) ==
    IF ~Truthy(did) \/ ~Truthy(pubKey) \/ ~Truthy(make) \/ ~Truthy(model) \/ ~Truthy(owner)
    THEN [response |-> Response(400, "Missing required fields"), db |-> db]
    ELSE LET counted == [db EXCEPT !.deviceIdCounter = @ + 1]
         IN  IF ~HasToLowerCase(owner)
             THEN [response |-> InternalServerError, db |-> counted]
             ELSE LET device == [id |-> counted.deviceIdCounter, did |-> did.s, pubKey |-> pubKey.s,
                                 make |-> make.s, model |-> model, owner |-> toLowerCase(owner.s),
                                 certId |-> CertIdOf(counted.deviceIdCounter), issuedAt |-> clock,
                                 metadata |-> ""]
                  IN  [response |-> Response(200, ""),
                       db |-> [counted EXCEPT !.devices = Append(@, device)]]

\* The handler's result: the response and the store it leaves. The device keeps
\* the model as it was sent, with its JavaScript type.
IssueOutcome(did, pubKey, make, model, owner) ==
    IF ~Truthy(did) \/ ~Truthy(pubKey) \/ ~Truthy(make) \/ ~Truthy(model) \/ ~Truthy(owner)
    THEN [response |-> Response(400, "Missing required fields"), db |-> db]
    ELSE IF DeviceByDid(did.s) # 0
    THEN [response |-> Response(400, "Device DID already exists"), db |-> db]
    ELSE LET counted == [db EXCEPT !.deviceIdCounter = @ + 1]   \* id: ++db.deviceIdCounter
         IN  IF ~HasToLowerCase(owner)                          \* owner: owner.toLowerCase() throws
             THEN [response |-> InternalServerError, db |-> counted]
             ELSE LET device == [id |-> counted.deviceIdCounter, did |-> did.s, pubKey |-> pubKey.s,
                                 make |-> make.s, model |-> model, owner |-> toLowerCase(owner.s),
                                 certId |-> CertIdOf(counted.deviceIdCounter), issuedAt |-> clock,
                                 metadata |-> ""]
                  IN  [response |-> Response(200, ""),
                       db |-> [counted EXCEPT !.devices = Append(@, device)]]

PostDevicesIssue(did, pubKey, make, model, owner) ==
    LET out == IssueOutcome(did, pubKey, make, model, owner)
    IN  /\ system = "backend"
        /\ db' = out.db
        /\ UNCHANGED <<clock, system, chainVars>>

(***************************************************************************)
(* Backend: POST /api/access-passes/grant                                  *)
(***************************************************************************)
DeviceById(id) == FindIndex({i \in DOMAIN db.devices : db.devices[i].id = id})

\* Variant: the ownership check lets every caller through.
NotOwner_Never(device, by) == FALSE

\* device.owner.toLowerCase() !== grantedBy.toLowerCase()
NotOwner(device, by) == toLowerCase(device.owner) # toLowerCase(by.s)

GrantOutcome(deviceId, viewer, duration, grantedBy) ==
    IF ~Truthy(deviceId) \/ ~Truthy(viewer) \/ ~Truthy(duration) \/ ~Truthy(grantedBy)
    THEN [response |-> Response(400, "Missing required fields"), db |-> db]
    ELSE IF DeviceById(parseInt(deviceId)) = 0
    THEN [response |-> Response(404, "Device not found"), db |-> db]
    ELSE LET device == db.devices[DeviceById(parseInt(deviceId))]
         IN  IF ~HasToLowerCase(grantedBy)                      \* grantedBy.toLowerCase() throws
             THEN [response |-> InternalServerError, db |-> db]
             ELSE IF NotOwner(device, grantedBy)
             THEN [response |-> Response(403, "Only device owner can grant access passes"), db |-> db]
             ELSE LET counted == [db EXCEPT !.passIdCounter = @ + 1]   \* id: ++db.passIdCounter
                  IN  IF ~HasToLowerCase(viewer)                 \* viewer.toLowerCase() throws
                      THEN [response |-> InternalServerError, db |-> counted]
                      ELSE LET accessPass ==
                                   [id |-> counted.passIdCounter, passId |-> PassIdOf(counted.passIdCounter),
                                    deviceId |-> device.id, deviceDid |-> device.did,
                                    viewer |-> toLowerCase(viewer.s), grantedBy |-> toLowerCase(grantedBy.s),
                                    grantedAt |-> clock, expiresAt |-> clock + (parseInt(duration) * 1000)]
                           IN  [response |-> Response(200, ""),
                                db |-> [counted EXCEPT !.accessPasses = Append(@, accessPass)]]

PostAccessPassesGrant(deviceId, viewer, duration, grantedBy) ==
    LET out == GrantOutcome(deviceId, viewer, duration, grantedBy)
    IN  /\ system = "backend"
        /\ db' = out.db
        /\ UNCHANGED <<clock, system, chainVars>>

(***************************************************************************)
(* Backend: the access checks                                              *)
(***************************************************************************)
\* db.accessPasses.find(p => p.deviceDid === deviceDid &&
\*     p.viewer.toLowerCase() === viewerAddress.toLowerCase() && p.expiresAt > Date.now())
ValidPass(deviceDid, viewerAddress) ==
    FindIndex({i \in DOMAIN db.accessPasses :
                  /\ db.accessPasses[i].deviceDid = deviceDid
                  /\ toLowerCase(db.accessPasses[i].viewer) = toLowerCase(viewerAddress)
                  /\ db.accessPasses[i].expiresAt > clock})

\* generateSensorData(device.id) finds the device again and calls
\* device.model.includes(...), which throws a TypeError unless the model is a string.
generateSensorDataThrows(device) == ~HasIncludes(device.model)

\* POST /api/stream/access
PostStreamAccess(deviceDid, viewerAddress) ==
    IF ~Truthy(deviceDid) \/ ~Truthy(viewerAddress)
    THEN Response(400, "Missing required fields")
    ELSE IF ~(deviceDid.t = "string" /\ DeviceByDid(deviceDid.s) # 0)
    THEN Response(404, "Device not found")
    ELSE IF ~HasToLowerCase(viewerAddress)
    THEN IF \E i \in 1..Len(db.accessPasses) : db.accessPasses[i].deviceDid = deviceDid.s
         THEN InternalServerError                               \* viewerAddress.toLowerCase() throws
         ELSE Response(403, "No valid access pass found")
    ELSE IF ValidPass(deviceDid.s, viewerAddress.s) = 0
    THEN Response(403, "No valid access pass found")
    ELSE IF generateSensorDataThrows(db.devices[DeviceByDid(deviceDid.s)])
    THEN InternalServerError
    ELSE Response(200, "")

\* authHeader.replace('Bearer ', ''): a header is the sequence of its pieces, the
\* first piece "Bearer " is dropped; what is left is compared as the address.
ReplaceBearer(authHeader) ==
    IF Len(authHeader) > 0 /\ authHeader[1] = "Bearer " THEN Tail(authHeader) ELSE authHeader

\* GET /api/stream/:deviceDid; authHeader is <<>> when the request has none.
GetStream(deviceDid, authHeader) ==
    IF authHeader = <<>>
    THEN Response(401, "No authorization provided")
    ELSE LET viewerAddress == ReplaceBearer(authHeader)
         IN  IF DeviceByDid(deviceDid) = 0
             THEN Response(404, "Device not found")
             ELSE IF Len(viewerAddress) # 1 \/ ValidPass(deviceDid, viewerAddress[1]) = 0
             THEN Response(403, "Access denied")
             ELSE IF generateSensorDataThrows(db.devices[DeviceByDid(deviceDid)])
             THEN InternalServerError
             ELSE Response(200, "")

(***************************************************************************)
(* Backend: DELETE /api/access-passes/:passId                              *)
(***************************************************************************)
PassByPassId(passId) == FindIndex({i \in DOMAIN db.accessPasses : db.accessPasses[i].passId = passId})

\* Variant: the revoked pass is taken out of the array.
RevokedPasses_Removed(passIndex) ==
    SubSeq(db.accessPasses, 1, passIndex - 1)
        \o SubSeq(db.accessPasses, passIndex + 1, Len(db.accessPasses))

\* db.accessPasses[passIndex].expiresAt = Date.now()
RevokedPasses(passIndex) == [db.accessPasses EXCEPT ![passIndex].expiresAt = clock]

\* Variant: a revoke by a caller who is not the owner is answered 400.
RevokeOutcome_BadRequest(passId, revokedBy) ==
    IF PassByPassId(passId) = 0
    THEN [response |-> Response(404, "Access pass not found"), db |-> db]
    ELSE LET passIndex == PassByPassId(passId)
             pass      == db.accessPasses[passIndex]
             device    == db.devices[DeviceById(pass.deviceId)]
         IN  IF ~HasToLowerCase(revokedBy)
             THEN [response |-> InternalServerError, db |-> db]
             ELSE IF NotOwner(device, revokedBy)
             THEN [response |-> Response(400, "Only device owner can revoke access passes"), db |-> db]
             ELSE [response |-> Response(200, ""),
                   db |-> [db EXCEPT !.accessPasses = RevokedPasses(passIndex)]]

\* Variant: a request that names no revoker is not checked against the owner.
RevokeOutcome_Unchecked(passId, revokedBy) ==
    IF PassByPassId(passId) = 0
    THEN [response |-> Response(404, "Access pass not found"), db |-> db]
    ELSE LET passIndex == PassByPassId(passId)
             pass      == db.accessPasses[passIndex]
             device    == db.devices[DeviceById(pass.deviceId)]
         IN  IF HasToLowerCase(revokedBy) /\ NotOwner(device, revokedBy)
             THEN [response |-> Response(403, "Only device owner can revoke access passes"), db |-> db]
             ELSE [response |-> Response(200, ""),
                   db |-> [db EXCEPT !.accessPasses = RevokedPasses(passIndex)]]

RevokeOutcome(passId, revokedBy) ==
    IF PassByPassId(passId) = 0
    THEN [response |-> Response(404, "Access pass not found"), db |-> db]
    ELSE LET passIndex == PassByPassId(passId)
             pass      == db.accessPasses[passIndex]
             device    == db.devices[DeviceById(pass.deviceId)]
         IN  IF ~HasToLowerCase(revokedBy)                      \* revokedBy.toLowerCase() throws
             THEN [response |-> InternalServerError, db |-> db]
             ELSE IF NotOwner(device, revokedBy)
             THEN [response |-> Response(403, "Only device owner can revoke access passes"), db |-> db]
             ELSE [response |-> Response(200, ""),
                   db |-> [db EXCEPT !.accessPasses = RevokedPasses(passIndex)]]

DeleteAccessPass(passId, revokedBy) ==
    LET out == RevokeOutcome(passId, revokedBy)
    IN  /\ system = "backend"
        /\ db' = out.db
        /\ UNCHANGED <<clock, system, chainVars>>

(***************************************************************************)
(* Backend: the requests explored                                          *)
(***************************************************************************)
DeviceIdBodies == {Num(1), Str("2"), Num(9)}
ViewerBodies   == {Undefined, Num(5), Str(SampleViewer1)}
DurationBodies == {Num(-1), Num(0), Num(1), Num(3600)}
ActorBodies    == {Undefined, Num(5), Str("0xa1"), Str(SampleOwnerB)}
DidBodies      == {Undefined, Str(DeviceDid1), Str(NewDid)}
FieldBodies    == {Undefined, Str("x")}
PassIdParams   == {PassIdOf(n) : n \in 1..(db.passIdCounter + 1)}

\* Some request among those explored leaves the store as it is.
SomeRequestKeepsStore ==
    \/ \E did \in DidBodies, model \in FieldBodies, owner \in ActorBodies :
          IssueOutcome(did, Str("k"), Str("m"), model, owner).db = db
    \/ \E deviceId \in DeviceIdBodies, viewer \in ViewerBodies, duration \in DurationBodies,
          grantedBy \in ActorBodies :
          GrantOutcome(deviceId, viewer, duration, grantedBy).db = db
    \/ \E passId \in PassIdParams, revokedBy \in ActorBodies :
          RevokeOutcome(passId, revokedBy).db = db

\* A request that leaves the store as it is (a rejected one, or a revocation that
\* rewrites the same expiry): whichever it was, it is this one step.
StoreKept ==
    /\ system = "backend"
    /\ IF SomeRequestKeepsStore THEN UNCHANGED vars ELSE FALSE

\* The requests that change the store, route by route, those that do not, and
\* the passage of time.
BackendNext ==
    \/ \E did \in DidBodies, model \in FieldBodies, owner \in ActorBodies :
          StoredIds < MaxStoredIds /\ PostDevicesIssue(did, Str("k"), Str("m"), model, owner) /\ db' # db
    \/ \E deviceId \in DeviceIdBodies, viewer \in ViewerBodies, duration \in DurationBodies,
          grantedBy \in ActorBodies :
          StoredIds < MaxStoredIds /\ PostAccessPassesGrant(deviceId, viewer, duration, grantedBy) /\ db' # db
    \/ \E passId \in PassIdParams, revokedBy \in ActorBodies :
          DeleteAccessPass(passId, revokedBy) /\ db' # db
    \/ StoreKept
    \/ \E t \in ClockTimes : Tick(t)

(***************************************************************************)
(* Backend: requests around a device whose model is not a string           *)
(***************************************************************************)
MaxStreamIds == 7           \* ids the store may hand out in these runs (5 are sample data)

ModelBodies       == {Str("x"), Num(5)}             \* req.body.model: a string, a number
GrantedDeviceIds  == {Num(1), Num(4)}               \* a sample device, the first device issued
GrantedDurations  == {Num(1), Num(3600)}
OwnerBodies       == {Str(SampleOwnerA), Str(SampleOwnerB)}

\* A device issued by the owner of sample device 2, passes granted and revoked on
\* it and on sample device 1, requests that leave the store as it is, and the
\* passage of time.
StreamNext ==
    \/ \E model \in ModelBodies :
          StoredIds < MaxStreamIds
              /\ PostDevicesIssue(Str(NewDid), Str("k"), Str("m"), model, Str(SampleOwnerB)) /\ db' # db
    \/ \E deviceId \in GrantedDeviceIds, duration \in GrantedDurations, grantedBy \in OwnerBodies :
          StoredIds < MaxStreamIds
              /\ PostAccessPassesGrant(deviceId, Str(SampleViewer1), duration, grantedBy) /\ db' # db
    \/ \E passId \in PassIdParams, revokedBy \in OwnerBodies :
          DeleteAccessPass(passId, revokedBy) /\ db' # db
    \/ StoreKept
    \/ \E t \in ClockTimes : Tick(t)

(***************************************************************************)
(* Specifications                                                          *)
(***************************************************************************)
\* The contract deployed and the server not started, or the server started and
\* the contract's storage untouched.
Init ==
    \/ system = "contract" /\ ChainInit /\ BackendOff
    \/ system = "backend" /\ ChainInit /\ BackendInit

Next == ChainNext \/ BackendNext

\* Either program.
Spec == Init /\ [][Next]_vars

\* The contract alone.
InitChain == Init /\ system = "contract"

SpecChain == InitChain /\ [][ChainNext]_vars

\* The backend alone.
InitBackend == Init /\ system = "backend"

SpecBackend == InitBackend /\ [][BackendNext]_vars

\* The backend with a device whose model is not a string.
SpecStream == InitBackend /\ [][StreamNext]_vars


(***************************************************************************)
(* Vocabulary of the properties                                            *)
(***************************************************************************)
\* An action property is stated of the steps that change the state.
Step(A) == UNCHANGED vars \/ A

Registered == DOMAIN devices

\* Position of the most recent pass for viewer v in deviceAccessPasses[d]; 0 if none.
LastPassIndex(d, v) ==
    LET idx == {i \in 1..Len(PassesAt(d)) : PassesAt(d)[i].viewer = v}
    IN  IF idx = {} THEN 0 ELSE CHOOSE i \in idx : \A j \in idx : j <= i

LastPass(d, v) == PassesAt(d)[LastPassIndex(d, v)]

\* This step is a successful grantAccess for (d, v) / a successful revokeAccess of (d, v).
GrantStep(d, v) ==
    \E sender \in Senders, duration \in DurationInputs :
        /\ GrantAccessError(sender, d, v, duration) = ""
        /\ grantAccess(sender, d, v, duration)

RevokeStep(d, v) ==
    \E sender \in Senders : RevokeAccessError(sender, d) = "" /\ revokeAccess(sender, d, v)

(***************************************************************************)
(* C1. After a successful grantAccess(d, v, duration) at time t the viewer *)
(* has access at once and at every time t <= now < t + duration while the  *)
(* grant is not revoked, and has none at any time now >= t + duration,     *)
(* the instant now = t + duration included, until a later grant.           *)
(***************************************************************************)
C1_AfterGrant ==
    \A d \in Registered, v \in Address :
        LastPassIndex(d, v) # 0 =>
            LET pass == LastPass(d, v)
            IN  /\ pass.grantedAt <= now
                /\ now >= pass.expiresAt => ~hasAccess(d, v)
                /\ getAccessExpiration(d, v) # 0 => (hasAccess(d, v) <=> now < pass.expiresAt)

C1_GrantStep ==
    \A sender \in Senders, d \in DeviceIdInputs, v \in Address, duration \in DurationInputs :
        (GrantAccessError(sender, d, v, duration) = "" /\ grantAccess(sender, d, v, duration)) =>
            /\ hasAccess(d, v)'
            /\ LastPass(d, v)'.grantedAt = now
            /\ LastPass(d, v)'.expiresAt = now + duration
            /\ getAccessExpiration(d, v)' = now + duration

\* Only a revoke takes an unexpired grant away.
C1_OnlyRevokeEnds ==
    \A d \in Registered, v \in Address :
        (getAccessExpiration(d, v) # 0 /\ getAccessExpiration(d, v)' = 0) => RevokeStep(d, v)

C1_GrantWindow == []C1_AfterGrant /\ [][Step(C1_GrantStep /\ C1_OnlyRevokeEnds)]_vars

\* A grant observed at the very instant it expires.
C1_Witness ==
    \E d \in Registered, v \in Address :
        /\ LastPassIndex(d, v) # 0
        /\ getAccessExpiration(d, v) = LastPass(d, v).expiresAt
        /\ now = LastPass(d, v).expiresAt
        /\ ~hasAccess(d, v)

(***************************************************************************)
(* C2. The owner of a registered device has access to it in every state,   *)
(* whatever grants, revokes, updates and toggles were applied.             *)
(***************************************************************************)
C2_OwnerAlwaysHasAccess ==
    \A d \in Registered : deviceExists(d) /\ hasAccess(d, devices[d].owner)

\* An inactive, renamed device with a pass on record, and no index entry for its owner.
C2_Witness ==
    \E d \in Registered :
        /\ ~devices[d].isActive
        /\ devices[d].name = "n2"
        /\ PassesAt(d) # <<>>
        /\ getAccessExpiration(d, devices[d].owner) = 0
        /\ hasAccess(d, devices[d].owner)

(***************************************************************************)
(* C3. Right after a successful revokeAccess(d, v) of a viewer that was    *)
(* granted access, hasAccess(d, v) is false and getAccessExpiration(d, v)  *)
(* is 0, even before the pass expires, and hasAccess(d, v) stays false     *)
(* until the owner grants again.                                           *)
(***************************************************************************)
C3_RevokeStep ==
    \A d \in Registered, v \in Address :
        (LastPassIndex(d, v) # 0 /\ RevokeStep(d, v)) =>
            ~hasAccess(d, v)' /\ getAccessExpiration(d, v)' = 0

C3_StaysRevoked ==
    \A d \in Registered, v \in Address :
        (LastPassIndex(d, v) # 0 /\ getAccessExpiration(d, v) = 0 /\ ~GrantStep(d, v)) =>
            ~hasAccess(d, v)' /\ getAccessExpiration(d, v)' = 0

C3_RevokeDenies == [][Step(C3_RevokeStep /\ C3_StaysRevoked)]_vars

\* A pass that has not expired, revoked.
C3_Witness ==
    \E d \in Registered, v \in Address :
        /\ LastPassIndex(d, v) # 0
        /\ LastPass(d, v).expiresAt > now
        /\ getAccessExpiration(d, v) = 0
        /\ ~hasAccess(d, v)


(***************************************************************************)
(* C4. A grant by a caller who is not the owner of the existing target     *)
(* device always fails with the authorization error and changes nothing    *)
(* (contract: storage and events; backend: db.accessPasses and             *)
(* passIdCounter).                                                         *)
(***************************************************************************)
\* The grant requests of the backend that name an existing device and, as a
\* non-empty string, a caller identity other than its owner.
BackendNonOwnerGrant(deviceId, grantedBy) ==
    /\ Truthy(deviceId)
    /\ DeviceById(parseInt(deviceId)) # 0
    /\ HasToLowerCase(grantedBy)
    /\ Truthy(grantedBy)
    /\ toLowerCase(grantedBy.s) # toLowerCase(db.devices[DeviceById(parseInt(deviceId))].owner)

GrantForbidden == Response(403, "Only device owner can grant access passes")

C4_ChainRejects ==
    \A sender \in Senders, d \in Registered :
        sender # devices[d].owner =>
            \A v \in Address, duration \in DurationInputs :
                grantAccessReceipt(sender, d, v, duration) = [err |-> "Not device owner", logs |-> <<>>]

C4_ChainUnchanged ==
    \A sender \in Senders, d \in Registered :
        sender # devices[d].owner =>
            \A v \in Address, duration \in DurationInputs :
                grantAccess(sender, d, v, duration) => UNCHANGED chainStore

C4_BackendUnchanged ==
    \A deviceId \in DeviceIdBodies, grantedBy \in ActorBodies :
        BackendNonOwnerGrant(deviceId, grantedBy) =>
            \A viewer \in ViewerBodies, duration \in DurationBodies :
                /\ GrantOutcome(deviceId, viewer, duration, grantedBy).response.status # 200
                /\ GrantOutcome(deviceId, viewer, duration, grantedBy).db = db
                /\ PostAccessPassesGrant(deviceId, viewer, duration, grantedBy) => UNCHANGED db

\* The claim as written: the backend too answers every such grant with the
\* authorization error.
C4_BackendAlwaysForbidden ==
    \A deviceId \in DeviceIdBodies, grantedBy \in ActorBodies :
        BackendNonOwnerGrant(deviceId, grantedBy) =>
            \A viewer \in ViewerBodies, duration \in DurationBodies :
                GrantOutcome(deviceId, viewer, duration, grantedBy).response = GrantForbidden

C4_BackendForbiddenWhenComplete ==
    \A deviceId \in DeviceIdBodies, grantedBy \in ActorBodies :
        BackendNonOwnerGrant(deviceId, grantedBy) =>
            \A viewer \in ViewerBodies, duration \in DurationBodies :
                GrantOutcome(deviceId, viewer, duration, grantedBy).response =
                    IF Truthy(viewer) /\ Truthy(duration)
                    THEN GrantForbidden
                    ELSE Response(400, "Missing required fields")

InvalidGrantArguments(sender, v, duration) ==
    duration = 0 \/ duration > 31536000 \/ v = sender \/ v = ZeroAddress

C5_InvalidRejected ==
    \A d \in Registered, v \in Address, duration \in DurationInputs :
        LET owner == devices[d].owner
        IN  /\ InvalidGrantArguments(owner, v, duration) =>
                /\ grantAccessReceipt(owner, d, v, duration).err # ""
                /\ grantAccessReceipt(owner, d, v, duration).logs = <<>>
            /\ (deviceActive(d) /\ ~InvalidGrantArguments(owner, v, 31536000)) =>
                grantAccessReceipt(owner, d, v, 31536000).err = ""

C5_InvalidUnchanged ==
    \A d \in Registered, v \in Address, duration \in DurationInputs :
        (InvalidGrantArguments(devices[d].owner, v, duration)
            /\ grantAccess(devices[d].owner, d, v, duration)) => UNCHANGED chainStore

C5_InvalidGrantRejected == []C5_InvalidRejected /\ [][Step(C5_InvalidUnchanged)]_vars

\* A pass of exactly 31536000 seconds on record.
C5_Witness ==
    \E d \in Registered : \E i \in 1..Len(PassesAt(d)) :
        PassesAt(d)[i].expiresAt - PassesAt(d)[i].grantedAt = 31536000

(***************************************************************************)
(* C6. For every device d and viewer v, viewerAccess[d][v] is 0 if v was   *)
(* never granted or the latest grant/revoke for (d, v) was a revoke, and   *)
(* otherwise the expiresAt of the last pass for v in deviceAccessPasses[d].*)
(***************************************************************************)
C6_IndexIsZeroOrLastPass ==
    \A d \in Registered \cup {UnknownId}, v \in Address :
        /\ LastPassIndex(d, v) = 0 => getAccessExpiration(d, v) = 0
        /\ getAccessExpiration(d, v) # 0 => getAccessExpiration(d, v) = LastPass(d, v).expiresAt

\* A revoke leaves 0, a grant leaves the expiry of the pass it appended, and
\* nothing else changes the entry (each implication is written consequent first).
C6_IndexFollowsLatest ==
    \A d \in Registered, v \in Address :
        /\ getAccessExpiration(d, v)' = 0 \/ ~RevokeStep(d, v)
        /\ \/ /\ getAccessExpiration(d, v)' # 0
              /\ LastPassIndex(d, v)' # 0
              /\ getAccessExpiration(d, v)' = LastPass(d, v)'.expiresAt
           \/ ~GrantStep(d, v)
        /\ getAccessExpiration(d, v)' = getAccessExpiration(d, v) \/ GrantStep(d, v) \/ RevokeStep(d, v)

C6_AccessIndex == []C6_IndexIsZeroOrLastPass /\ [][Step(C6_IndexFollowsLatest)]_vars

\* A viewer granted, revoked and granted again from another block.
C6_Witness ==
    \E d \in Registered, v \in Address :
        /\ Len(PassesAt(d)) = 2
        /\ PassesAt(d)[1].viewer = v /\ PassesAt(d)[2].viewer = v
        /\ PassesAt(d)[1].grantedAt < PassesAt(d)[2].grantedAt
        /\ getAccessExpiration(d, v) = PassesAt(d)[2].expiresAt

(***************************************************************************)
(* C7. A second successful grantAccess(d, v, duration2) at t2 sets the     *)
(* index of (d, v) to exactly t2 + duration2, later or earlier than the    *)
(* previous value, appends one pass and leaves the earlier passes of d     *)
(* unchanged in content and position.                                      *)
(***************************************************************************)
C7_GrantOverwrites ==
    \A sender \in Senders, d \in Registered, v \in Address, duration \in DurationInputs :
        (GrantAccessError(sender, d, v, duration) = "" /\ grantAccess(sender, d, v, duration)) =>
            /\ getAccessExpiration(d, v)' = now + duration
            /\ Len(PassesAt(d)') = Len(PassesAt(d)) + 1
            /\ SubSeq(PassesAt(d)', 1, Len(PassesAt(d))) = PassesAt(d)
            /\ PassesAt(d)'[Len(PassesAt(d)')].viewer = v
            /\ PassesAt(d)'[Len(PassesAt(d)')].expiresAt = now + duration

C7_LastGrantWins == [][Step(C7_GrantOverwrites)]_vars

\* A re-grant that ends earlier than the pass before it.
C7_Witness ==
    \E d \in Registered, v \in Address :
        /\ Len(PassesAt(d)) = 2
        /\ PassesAt(d)[1].viewer = v /\ PassesAt(d)[2].viewer = v
        /\ PassesAt(d)[2].expiresAt < PassesAt(d)[1].expiresAt
        /\ getAccessExpiration(d, v) = PassesAt(d)[2].expiresAt

(***************************************************************************)
(* C8. Once a device is registered its owner, did and registeredAt never   *)
(* change, whatever calls follow, by whatever callers.                     *)
(***************************************************************************)
C8_IdentityKept ==
    \A d \in Registered :
        /\ d \in Registered'
        /\ devices'[d].owner = devices[d].owner
        /\ devices'[d].did = devices[d].did
        /\ devices'[d].registeredAt = devices[d].registeredAt

C8_OwnerNeverChanges == [][Step(C8_IdentityKept)]_vars

\* A device renamed and deactivated in a block later than its registration,
\* next to a second device.
C8_Witness ==
    \E d \in Registered :
        /\ devices[d].name = "n2"
        /\ ~devices[d].isActive
        /\ devices[d].registeredAt < now
        /\ Len(allDeviceIds) = 2

(***************************************************************************)
(* C9. Backend: the access check (POST /api/stream/access and              *)
(* GET /api/stream/:deviceDid) succeeds for the owner of the device,       *)
(* whichever passes exist.                                                 *)
(***************************************************************************)
C9_BackendOwnerHasAccess ==
    \A i \in 1..Len(db.devices) :
        /\ PostStreamAccess(Str(db.devices[i].did), Str(db.devices[i].owner)).status = 200
        /\ GetStream(db.devices[i].did, <<"Bearer ", db.devices[i].owner>>).status = 200

(***************************************************************************)
(* C10. Backend: after the owner has revoked a viewer's pass               *)
(* (DELETE /api/access-passes/:passId) the access check for that device    *)
(* and viewer is denied, even before the original expiry, whatever grants  *)
(* were made to that viewer on that device before.                         *)
(***************************************************************************)
C10_RevokeDeniesStep ==
    \A passId \in PassIdParams, revokedBy \in ActorBodies :
        (RevokeOutcome(passId, revokedBy).response.status = 200
            /\ DeleteAccessPass(passId, revokedBy)) =>
            LET pass == db.accessPasses[PassByPassId(passId)]
            IN  PostStreamAccess(Str(pass.deviceDid), Str(pass.viewer))'.status = 403

C10_BackendRevokeDenies == [][Step(C10_RevokeDeniesStep)]_vars

(***************************************************************************)
(* C11. Backend: the access check for (device, viewer) is decided by the   *)
(* most recent pass granted to that viewer on that device alone: once that *)
(* pass's expiry has passed the check is denied, whatever earlier passes   *)
(* are still unexpired.                                                    *)
(***************************************************************************)
\* Position in db.accessPasses of the most recent pass for the viewer on the
\* device; 0 if there is none.
LatestStoredPass(deviceDid, viewer) ==
    LET idx == {i \in DOMAIN db.accessPasses :
                   /\ db.accessPasses[i].deviceDid = deviceDid
                   /\ toLowerCase(db.accessPasses[i].viewer) = toLowerCase(viewer)}
    IN  IF idx = {} THEN 0 ELSE CHOOSE i \in idx : \A j \in idx : j <= i

C11_BackendLastGrantDecides ==
    \A i \in DOMAIN db.accessPasses :
        LET pass == db.accessPasses[i]
        IN  (LatestStoredPass(pass.deviceDid, pass.viewer) = i /\ pass.expiresAt <= clock) =>
                PostStreamAccess(Str(pass.deviceDid), Str(pass.viewer)).status = 403

(***************************************************************************)
(* C12. Backend: every pass that POST /api/access-passes/grant stores has  *)
(* expiresAt > grantedAt, lasts at most 365 days and names a viewer other  *)
(* than the granting owner; a grant with duration 0 or negative, or with   *)
(* the owner as viewer, is rejected and stores nothing.                    *)
(***************************************************************************)
\* The pass is one the claim allows in the store.
WellFormedStoredPass(pass) ==
    /\ pass.expiresAt > pass.grantedAt
    /\ (pass.expiresAt - pass.grantedAt) \div 1000 <= 31536000
    /\ toLowerCase(pass.viewer) # toLowerCase(pass.grantedBy)

C12_BackendGrantValidates ==
    \A deviceId \in DeviceIdBodies, viewer \in ViewerBodies \cup {Str(SampleOwnerA)},
       duration \in DurationBodies, grantedBy \in ActorBodies :
        LET out == GrantOutcome(deviceId, viewer, duration, grantedBy)
        IN  /\ out.response.status = 200 =>
                WellFormedStoredPass(out.db.accessPasses[Len(out.db.accessPasses)])
            /\ (duration.t = "number" /\ duration.n <= 0) =>
                (out.response.status # 200 /\ out.db.accessPasses = db.accessPasses)

(***************************************************************************)
(* C13. Contract: every pass in every deviceAccessPasses[d] has            *)
(* grantedAt < expiresAt <= grantedAt + 31536000, isActive = true, a       *)
(* non-zero viewer other than the device's owner, and device_owner equal   *)
(* to devices[d].owner.                                                    *)
(***************************************************************************)
C13_PassesWellFormed ==
    \A d \in DOMAIN deviceAccessPasses :
        \A i \in DOMAIN deviceAccessPasses[d] :
            LET pass == deviceAccessPasses[d][i]
            IN  /\ pass.grantedAt < pass.expiresAt
                /\ pass.expiresAt <= pass.grantedAt + 31536000
                /\ pass.isActive = TRUE
                /\ pass.viewer # ZeroAddress
                /\ pass.viewer # DeviceAt(d).owner
                /\ pass.device_owner = DeviceAt(d).owner

\* A device holding a one-second pass and a 365-day pass.
C13_Witness ==
    \E d \in DOMAIN deviceAccessPasses :
        \E i, j \in DOMAIN deviceAccessPasses[d] :
            /\ deviceAccessPasses[d][i].expiresAt = deviceAccessPasses[d][i].grantedAt + 1
            /\ deviceAccessPasses[d][j].expiresAt = deviceAccessPasses[d][j].grantedAt + 31536000

(***************************************************************************)
(* C14. Contract: on an existing device grantAccess fails only when the    *)
(* caller is not the owner, the device is inactive, the viewer is the      *)
(* caller or the zero address, or the duration is outside (0, 31536000];   *)
(* every other grant succeeds, appends a pass with expiry now + duration   *)
(* and sets the access index to that expiry.  As first stated, without the *)
(* inactive device: C14_AsClaimed.                                         *)
(***************************************************************************)
C14_AsClaimed ==
    \A d \in Registered, sender \in Senders, v \in Address, duration \in DurationInputs :
        grantAccessReceipt(sender, d, v, duration).err # "" =>
            \/ sender # devices[d].owner
            \/ v = sender
            \/ v = ZeroAddress
            \/ ~(0 < duration /\ duration <= 31536000)

C14_FailsOnlyWhen ==
    \A d \in Registered, sender \in Senders, v \in Address, duration \in DurationInputs :
        grantAccessReceipt(sender, d, v, duration).err # "" <=>
            \/ sender # devices[d].owner
            \/ ~devices[d].isActive
            \/ v = sender
            \/ v = ZeroAddress
            \/ ~(0 < duration /\ duration <= 31536000)

C14_GrantEffect ==
    \A sender \in Senders, d \in Registered, v \in Address, duration \in DurationInputs :
        (GrantAccessError(sender, d, v, duration) = "" /\ grantAccess(sender, d, v, duration)) =>
            /\ Len(PassesAt(d))' = Len(PassesAt(d)) + 1
            /\ PassesAt(d)'[Len(PassesAt(d)) + 1].viewer = v
            /\ PassesAt(d)'[Len(PassesAt(d)) + 1].expiresAt = now + duration
            /\ ViewerAccessAt(d, v)' = now + duration

C14_GrantOutcome == []C14_FailsOnlyWhen /\ [][Step(C14_GrantEffect)]_vars

\* A deactivated device with a pass on record: its owner's grant of one second
\* to another address is refused.
C14_Witness ==
    \E d \in Registered, v \in Senders :
        /\ ~devices[d].isActive
        /\ PassesAt(d) # <<>>
        /\ v # devices[d].owner
        /\ grantAccessReceipt(devices[d].owner, d, v, 1).err = "Device is not active"

(***************************************************************************)
(* C15. Contract: the pass history of a device is append-only: in every    *)
(* step deviceAccessPasses[d] before is a prefix of deviceAccessPasses[d]  *)
(* after; only a successful grantAccess lengthens it, by exactly one; a    *)
(* revokeAccess changes no pass record.                                    *)
(***************************************************************************)
C15_HistoryStep ==
    /\ \A d \in DOMAIN deviceAccessPasses : d \in DOMAIN deviceAccessPasses'
    /\ \A d \in DOMAIN deviceAccessPasses' :
           \/ PassesAt(d)' = PassesAt(d)
           \/ /\ Len(PassesAt(d)') = Len(PassesAt(d)) + 1
              /\ SubSeq(PassesAt(d)', 1, Len(PassesAt(d))) = PassesAt(d)
              /\ \E v \in Address : GrantStep(d, v)
    /\ \/ deviceAccessPasses' = deviceAccessPasses
       \/ ~ \E d \in Registered, v \in Address : RevokeStep(d, v)

C15_HistoryAppendOnly == [][Step(C15_HistoryStep)]_vars

\* A history of two passes whose first viewer has since been revoked: the
\* record of the revoked grant is still there and still marked active.
C15_Witness ==
    \E d \in Registered :
        /\ Len(PassesAt(d)) = 2
        /\ ViewerAccessAt(d, PassesAt(d)[1].viewer) = 0
        /\ PassesAt(d)[1].isActive

(***************************************************************************)
(* C16. Contract: revokeAccess(d, v) by the owner succeeds for any viewer  *)
(* v, granted or not, revoked or not, and is idempotent: it leaves index 0 *)
(* for (d, v), every other index entry, the device records and the pass    *)
(* histories as they were, and a second application changes nothing more.  *)
(***************************************************************************)
\* The owner's revoke is accepted for every viewer, and where the index of
\* (d, v) is already 0 it writes the index it finds.
C16_OwnerRevokeSucceeds ==
    \A d \in Registered, v \in Address :
        /\ revokeAccessReceipt(devices[d].owner, d, v).err = ""
        /\ ViewerAccessAt(d, v) = 0 => RevokeIndexWrite(d, v) = viewerAccess

C16_RevokeOnce ==
    \A sender \in Senders, d \in Registered, v \in Address :
        (RevokeAccessError(sender, d) = "" /\ revokeAccess(sender, d, v)) =>
            /\ ViewerAccessAt(d, v)' = 0
            /\ \A d2 \in Registered, v2 \in Address :
                   <<d2, v2>> # <<d, v>> => ViewerAccessAt(d2, v2)' = ViewerAccessAt(d2, v2)
            /\ UNCHANGED <<devices, ownerDevices, deviceAccessPasses, allDeviceIds>>
            /\ RevokeIndexWrite(d, v)' = viewerAccess'

C16_RevokeIdempotent == []C16_OwnerRevokeSucceeds /\ [][Step(C16_RevokeOnce)]_vars

\* A deactivated device whose only viewer has been revoked: the owner's next
\* revoke of that viewer, and of an address never granted, is accepted.
C16_Witness ==
    \E d \in Registered, v \in Address :
        /\ ~devices[d].isActive
        /\ LastPassIndex(d, v) # 0
        /\ ViewerAccessAt(d, v) = 0
        /\ revokeAccessReceipt(devices[d].owner, d, v).err = ""
        /\ LastPassIndex(d, ZeroAddress) = 0
        /\ revokeAccessReceipt(devices[d].owner, d, ZeroAddress).err = ""

(***************************************************************************)
(* C17. A revoke by a caller who is not the owner of the device fails with *)
(* the authorization error and changes nothing: in the contract the call   *)
(* reverts with "Not device owner", viewerAccess[d][v] and hasAccess(d, v) *)
(* stay as they are; in the backend the answer is 403 and the targeted     *)
(* pass keeps its expiresAt.                                               *)
(***************************************************************************)
\* The revoke requests of the backend that target a stored pass and name, as a
\* string, a caller identity other than the owner of the pass's device.
BackendNonOwnerRevoke(passId, revokedBy) ==
    /\ PassByPassId(passId) # 0
    /\ HasToLowerCase(revokedBy)
    /\ toLowerCase(revokedBy.s) #
           toLowerCase(db.devices[DeviceById(db.accessPasses[PassByPassId(passId)].deviceId)].owner)

RevokeForbidden == Response(403, "Only device owner can revoke access passes")

C17_Rejected ==
    /\ \A sender \in Senders, d \in Registered :
           sender # devices[d].owner =>
               \A v \in Address :
                   revokeAccessReceipt(sender, d, v) = [err |-> "Not device owner", logs |-> <<>>]
    /\ system = "backend" =>
           \A passId \in PassIdParams, revokedBy \in ActorBodies \cup {Str("")} :
               BackendNonOwnerRevoke(passId, revokedBy) =>
                   /\ RevokeOutcome(passId, revokedBy).response = RevokeForbidden
                   /\ RevokeOutcome(passId, revokedBy).db = db

C17_Unchanged ==
    /\ \/ (UNCHANGED chainStore /\ \A d \in Registered, v \in Address : hasAccess(d, v)' = hasAccess(d, v))
       \/ ~ \E sender \in Senders, d \in Registered, v \in Address :
               sender # devices[d].owner /\ revokeAccess(sender, d, v)
    /\ \/ db' = db
       \/ ~ \E passId \in PassIdParams, revokedBy \in ActorBodies \cup {Str("")} :
               BackendNonOwnerRevoke(passId, revokedBy) /\ DeleteAccessPass(passId, revokedBy)

C18_ZeroOrLatestExpiry ==
    \A d \in Registered, v \in Address :
        IF LastPassIndex(d, v) = 0
        THEN getAccessExpiration(d, v) = 0
        ELSE /\ LastPass(d, v).expiresAt # 0
             /\ getAccessExpiration(d, v) \in {0, LastPass(d, v).expiresAt}

\* The value after a grant is the expiry granted, after a revoke 0, and it is
\* what it was after any other step, the passage of block time included.
C18_ReturnAfterStep ==
    \A d \in Registered, v \in Address :
        /\ \/ getAccessExpiration(d, v)' = getAccessExpiration(d, v)
           \/ GrantStep(d, v)
           \/ RevokeStep(d, v)
        /\ \/ /\ getAccessExpiration(d, v)' # 0
              /\ getAccessExpiration(d, v)' = LastPass(d, v)'.expiresAt
           \/ ~GrantStep(d, v)
        /\ \/ getAccessExpiration(d, v)' = 0
           \/ ~RevokeStep(d, v)

Expired(d, v) == 0 < ViewerAccessAt(d, v) /\ ViewerAccessAt(d, v) <= now

\* Revoked or expired, the viewer is denied.
C19_DeniedAlike ==
    \A d \in Registered, v \in Address :
        (v # devices[d].owner /\ ViewerAccessAt(d, v) <= now) => ~hasAccess(d, v)

\* The state with the expired entry and the state with the entry revoked give
\* the same answer to every hasAccess and the same receipt to every call.
C19_SameObservations ==
    \A d \in Registered, v \in Address :
        (Expired(d, v) /\ RevokeStep(d, v)) =>
            /\ \A d2 \in Registered, v2 \in Address : hasAccess(d2, v2)' = hasAccess(d2, v2)
            /\ \A sender \in Senders, d2 \in DeviceIdInputs :
                   /\ \A v2 \in Address, duration \in DurationInputs :
                          grantAccessReceipt(sender, d2, v2, duration)' =
                              grantAccessReceipt(sender, d2, v2, duration)
                   /\ \A v2 \in Address :
                          revokeAccessReceipt(sender, d2, v2)' = revokeAccessReceipt(sender, d2, v2)
                   /\ \A name \in NewNameInputs, location \in NewLocationInputs :
                          updateDeviceReceipt(sender, d2, name, location)' =
                              updateDeviceReceipt(sender, d2, name, location)
                   /\ toggleDeviceStatusReceipt(sender, d2)' = toggleDeviceStatusReceipt(sender, d2)
            /\ \A sender \in Senders, did \in DidInputs, name \in NameInputs, location \in LocationInputs :
                   registerDeviceReceipt(sender, did, name, location)' =
                       registerDeviceReceipt(sender, did, name, location)

\* From a revoked or expired relationship, the next answer of hasAccess(d, v)
\* is true exactly when the step is a grant to v.
C19_OnlyGrantRestores ==
    \A d \in Registered, v \in Address :
        (v # devices[d].owner /\ ViewerAccessAt(d, v) <= now) =>
            /\ ~hasAccess(d, v)' \/ GrantStep(d, v)
            /\ hasAccess(d, v)' \/ ~GrantStep(d, v)

C19_ExpiredLikeRevoked ==
    []C19_DeniedAlike /\ [][Step(C19_SameObservations /\ C19_OnlyGrantRestores)]_vars

\* An expired relationship that has then been revoked, on a device that is
\* still active: the state of the one run next to the state of the other.
C19_Witness ==
    \E d \in Registered, v \in Address :
        /\ LastPassIndex(d, v) # 0
        /\ LastPass(d, v).expiresAt < now
        /\ ViewerAccessAt(d, v) = 0
        /\ devices[d].isActive
        /\ ~hasAccess(d, v)

(***************************************************************************)
(* C20. Contract: a registration whose derived id (did, caller, block      *)
(* time) is the id of a registered device is rejected and changes nothing, *)
(* so no device record is overwritten and the ids in allDeviceIds are      *)
(* pairwise distinct in every state, the second registration of one did by *)
(* one caller in one block included.                                       *)
(***************************************************************************)
\* The ids listed are distinct, they are the keys of the records, and each
\* record is still the one its id was derived from.
C20_IdsDistinct ==
    /\ \A i, j \in DOMAIN allDeviceIds : allDeviceIds[i] = allDeviceIds[j] => i = j
    /\ {allDeviceIds[i] : i \in DOMAIN allDeviceIds} = DOMAIN devices
    /\ \A d \in DOMAIN devices :
           d = DeviceIdOf(devices[d].did, devices[d].owner, devices[d].registeredAt)

C20_CollisionRejected ==
    \A sender \in Senders, did \in DidInputs, name \in NameInputs, location \in LocationInputs :
        (did # "" /\ name # "" /\ DeviceIdOf(did, sender, now) \in DOMAIN devices) =>
            registerDeviceReceipt(sender, did, name, location) =
                [err |-> "Device ID collision", logs |-> <<>>]

\* A colliding registration leaves storage alone, and a step that lists a new
\* id leaves every record that was there as it was.
C20_NothingOverwritten ==
    /\ \/ UNCHANGED chainStore
       \/ ~ \E sender \in Senders, did \in DidInputs, name \in NameInputs, location \in LocationInputs :
               /\ DeviceIdOf(did, sender, now) \in DOMAIN devices
               /\ registerDevice(sender, did, name, location)
    /\ \/ allDeviceIds' = allDeviceIds
       \/ /\ Len(allDeviceIds') = Len(allDeviceIds) + 1
          /\ allDeviceIds'[Len(allDeviceIds')] \notin DOMAIN devices
          /\ \A d \in DOMAIN devices : d \in DOMAIN devices' /\ devices'[d] = devices[d]

C20_NoIdCollision ==
    [](C20_IdsDistinct /\ C20_CollisionRejected) /\ [][Step(C20_NothingOverwritten)]_vars

\* A device renamed in the block it was registered in: the owner's second
\* registration of the same did in that block is refused.
C20_Witness ==
    \E d \in DOMAIN devices :
        /\ devices[d].registeredAt = now
        /\ devices[d].name = "n2"
        /\ registerDeviceReceipt(devices[d].owner, devices[d].did, "n1", "l1").err = "Device ID collision"

(***************************************************************************)
(* C21. Contract: the DID string is unique: in every reachable state no    *)
(* two registered devices carry the same did, whoever registered them and  *)
(* at whatever time.                                                       *)
(***************************************************************************)
C21_DidUnique ==
    \A d1, d2 \in DOMAIN devices : devices[d1].did = devices[d2].did => d1 = d2

(***************************************************************************)
(* C22. Contract: registerDevice with an empty did or an empty name always *)
(* fails and leaves devices, ownerDevices, allDeviceIds and the event log  *)
(* unchanged.                                                              *)
(***************************************************************************)
C22_EmptyRejected ==
    \A sender \in Senders, did \in DidInputs, name \in NameInputs, location \in LocationInputs :
        (did = "" \/ name = "") =>
            registerDeviceReceipt(sender, did, name, location) =
                [err  |-> IF did = "" THEN "DID cannot be empty" ELSE "Name cannot be empty",
                 logs |-> <<>>]

C22_EmptyUnchanged ==
    \/ UNCHANGED <<devices, ownerDevices, allDeviceIds>>
    \/ ~ \E sender \in Senders, did \in DidInputs, name \in NameInputs, location \in LocationInputs :
            (did = "" \/ name = "") /\ registerDevice(sender, did, name, location)

C22_EmptyRegistrationRejected == []C22_EmptyRejected /\ [][Step(C22_EmptyUnchanged)]_vars

\* Two devices on record, the second registered in a later block than the
\* first: a registration without did and one without name are both refused.
C22_Witness ==
    /\ Len(allDeviceIds) = 2
    /\ devices[allDeviceIds[1]].registeredAt < devices[allDeviceIds[2]].registeredAt
    /\ registerDeviceReceipt("A", "", "n1", "l1").err = "DID cannot be empty"
    /\ registerDeviceReceipt("A", "d1", "", "l1").err = "Name cannot be empty"

(***************************************************************************)
(* C23. Contract: in every state getOwnerDevices(a) lists exactly the      *)
(* registered devices whose owner is a, each once and in registration      *)
(* order; a successful registerDevice by a creates an active device owned  *)
(* by a, appends its id to getOwnerDevices(a) and to allDeviceIds, and     *)
(* changes no other owner's list.                                          *)
(***************************************************************************)
\* The ids of allDeviceIds, in that order, whose device is owned by a.
RegisteredTo(a) == SelectSeq(allDeviceIds, LAMBDA d : DeviceAt(d).owner = a)

C23_ListsOwnDevices ==
    \A a \in Address : getOwnerDevices(a) = RegisteredTo(a)

C23_RegisterStep ==
    \A sender \in Senders, did \in DidInputs, name \in NameInputs, location \in LocationInputs :
        (RegisterDeviceError(sender, did, name) = "" /\ registerDevice(sender, did, name, location)) =>
            LET d == DeviceIdOf(did, sender, now)
            IN  /\ DeviceAt(d)'.owner = sender
                /\ DeviceAt(d)'.isActive
                /\ getOwnerDevices(sender)' = Append(getOwnerDevices(sender), d)
                /\ allDeviceIds' = Append(allDeviceIds, d)
                /\ \A a \in Address \ {sender} : getOwnerDevices(a)' = getOwnerDevices(a)

C23_OwnerIndex == []C23_ListsOwnDevices /\ [][Step(C23_RegisterStep)]_vars

\* One owner with two devices, registered in different blocks.
C23_Witness ==
    \E a \in Senders :
        /\ Len(getOwnerDevices(a)) = 2
        /\ devices[getOwnerDevices(a)[1]].registeredAt < devices[getOwnerDevices(a)[2]].registeredAt

(***************************************************************************)
(* C24. Contract: devices are never deleted: getTotalDevices never         *)
(* decreases, grows by exactly one on each successful registerDevice and   *)
(* by zero on every other operation, and a device that exists in a state   *)
(* exists in every later state; toggleDeviceStatus only lowers or raises   *)
(* the active flag.                                                        *)
(***************************************************************************)
\* This step is a successful registerDevice.
RegisterStep ==
    \E sender \in Senders, did \in DidInputs, name \in NameInputs, location \in LocationInputs :
        RegisterDeviceError(sender, did, name) = "" /\ registerDevice(sender, did, name, location)

\* This step is a successful toggleDeviceStatus of d.
ToggleStep(d) ==
    \E sender \in Senders : ToggleDeviceStatusError(sender, d) = "" /\ toggleDeviceStatus(sender, d)

C24_CountStep ==
    /\ \/ getTotalDevices' = getTotalDevices /\ ~RegisterStep
       \/ getTotalDevices' = getTotalDevices + 1 /\ RegisterStep
    /\ \A d \in Registered :
           /\ deviceExists(d) /\ deviceExists(d)'
           /\ \/ devices'[d] = devices[d]
              \/ ~ToggleStep(d)
              \/ devices'[d] = [devices[d] EXCEPT !.isActive = ~devices[d].isActive]

C24_NeverDeleted == [][Step(C24_CountStep)]_vars

\* Two devices on record, the first of them deactivated and carrying a pass.
C24_Witness ==
    /\ getTotalDevices = 2
    /\ ~devices[allDeviceIds[1]].isActive
    /\ deviceExists(allDeviceIds[1])
    /\ PassesAt(allDeviceIds[1]) # <<>>

(***************************************************************************)
(* C25. Contract: updateDevice fails with "Device does not exist" for an   *)
(* unknown device, with "Not device owner" when the caller is not the      *)
(* owner, and with "Name cannot be empty" when the owner gives an empty    *)
(* name, leaving all state unchanged in each failing case; on success it   *)
(* changes only the device's name and location.  As first stated, with the *)
(* name error for every empty name on an existing device: C25_AsClaimed.   *)
(***************************************************************************)
C25_AsClaimed ==
    \A sender \in Senders, d \in DeviceIdInputs, name \in NewNameInputs, location \in NewLocationInputs :
        LET err == updateDeviceReceipt(sender, d, name, location).err
        IN  /\ d \notin Registered => err = "Device does not exist"
            /\ (d \in Registered /\ name = "") => err = "Name cannot be empty"
            /\ (d \in Registered /\ name # "" /\ sender # devices[d].owner) => err = "Not device owner"

C25_Errors ==
    \A sender \in Senders, d \in DeviceIdInputs, name \in NewNameInputs, location \in NewLocationInputs :
        updateDeviceReceipt(sender, d, name, location).err =
            IF d \notin Registered THEN "Device does not exist"
            ELSE IF sender # devices[d].owner THEN "Not device owner"
            ELSE IF name = "" THEN "Name cannot be empty"
            ELSE ""

C25_UpdateStep ==
    \A sender \in Senders, d \in DeviceIdInputs, name \in NewNameInputs, location \in NewLocationInputs :
        updateDevice(sender, d, name, location) =>
            IF UpdateDeviceError(sender, d, name) # ""
            THEN UNCHANGED chainStore
            ELSE /\ devices'[d] = [devices[d] EXCEPT !.name = name, !.location = location]
                 /\ \A e \in DOMAIN devices' : e # d => (e \in Registered /\ devices'[e] = devices[e])
                 /\ UNCHANGED <<ownerDevices, deviceAccessPasses, viewerAccess, allDeviceIds>>

C25_UpdateDevice == []C25_Errors /\ [][Step(C25_UpdateStep)]_vars

\* A deactivated device with a live grant, renamed and moved: a caller who is
\* not its owner and sends an empty name is refused as a non-owner.
C25_Witness ==
    \E d \in Registered, v \in Senders :
        /\ devices[d].name = "n2" /\ devices[d].location = "l2"
        /\ ~devices[d].isActive
        /\ v # devices[d].owner
        /\ ViewerAccessAt(d, v) > now
        /\ updateDeviceReceipt(v, d, "", "l2").err = "Not device owner"

(***************************************************************************)
(* C26. Contract: toggleDeviceStatus by the owner negates the device's     *)
(* active flag and changes nothing else, so a second toggle restores the   *)
(* original record; a toggle by a caller who is not the owner fails and    *)
(* leaves the flag as it is.                                               *)
(***************************************************************************)
C26_NonOwnerRejected ==
    \A sender \in Senders, d \in Registered :
        sender # devices[d].owner =>
            toggleDeviceStatusReceipt(sender, d) = [err |-> "Not device owner", logs |-> <<>>]

C26_ToggleStep ==
    \A sender \in Senders, d \in Registered :
        toggleDeviceStatus(sender, d) =>
            IF sender # devices[d].owner
            THEN UNCHANGED chainStore
            ELSE /\ devices'[d] = [devices[d] EXCEPT !.isActive = ~devices[d].isActive]
                 /\ \A e \in DOMAIN devices' : e # d => (e \in Registered /\ devices'[e] = devices[e])
                 /\ UNCHANGED <<ownerDevices, deviceAccessPasses, viewerAccess, allDeviceIds>>
                 /\ ToggleDeviceStatusError(sender, d)' = ""
                 /\ ToggledDevice(d)' = devices[d]

C26_ToggleInvolution == []C26_NonOwnerRejected /\ [][Step(C26_ToggleStep)]_vars

\* An active, renamed device with one pass from an earlier block: a non-owner's
\* toggle is refused and the owner's would deactivate it.
C26_Witness ==
    \E d \in Registered, v \in Senders :
        /\ devices[d].isActive
        /\ devices[d].name = "n2"
        /\ v # devices[d].owner
        /\ Len(PassesAt(d)) = 1
        /\ PassesAt(d)[1].grantedAt < now
        /\ toggleDeviceStatusReceipt(v, d).err = "Not device owner"
        /\ toggleDeviceStatusReceipt(devices[d].owner, d).logs[1].isActive = FALSE

(***************************************************************************)
(* C27. Reads observe only whole mutations: in every state a read can see, *)
(* each grant is either fully applied or not applied at all.  In the       *)
(* backend a grant is the id it takes from passIdCounter and the pass it   *)
(* pushes, so the ids taken are the ids of the passes stored, and every    *)
(* grant request leaves the store as it was or adds one pass with the next *)
(* id.                                                                     *)
(***************************************************************************)
C27_GrantAllOrNothing ==
    /\ db.passIdCounter = Len(db.accessPasses)
    /\ \A i \in DOMAIN db.accessPasses : db.accessPasses[i].id = i
    /\ \A deviceId \in DeviceIdBodies, viewer \in ViewerBodies, duration \in DurationBodies,
          grantedBy \in ActorBodies :
           LET out == GrantOutcome(deviceId, viewer, duration, grantedBy)
           IN  \/ out.db = db
               \/ /\ out.response.status = 200
                  /\ out.db.passIdCounter = db.passIdCounter + 1
                  /\ Len(out.db.accessPasses) = Len(db.accessPasses) + 1

(***************************************************************************)
(* C28. Contract: each successful registerDevice, updateDevice,            *)
(* toggleDeviceStatus, grantAccess and revokeAccess emits exactly one      *)
(* event, of the kind DeviceRegistered, DeviceUpdated, DeviceStatusChanged,*)
(* AccessGranted, AccessRevoked, carrying the device id and the current    *)
(* time; AccessGranted carries the expiresAt written to the access index;  *)
(* a failed call emits no event.                                           *)
(***************************************************************************)
\* The receipt r of a call on device d that emits events of the given kind.
OneEventOrNone(r, kind, d) ==
    IF r.err # ""
    THEN r.logs = <<>>
    ELSE /\ Len(r.logs) = 1
         /\ r.logs[1].kind = kind
         /\ r.logs[1].deviceId = d
         /\ r.logs[1].timestamp = now

C28_OneEventPerCall ==
    /\ \A sender \in Senders, did \in DidInputs, name \in NameInputs, location \in LocationInputs :
           OneEventOrNone(registerDeviceReceipt(sender, did, name, location),
                          "DeviceRegistered", DeviceIdOf(did, sender, now))
    /\ \A sender \in Senders, d \in DeviceIdInputs :
           /\ OneEventOrNone(toggleDeviceStatusReceipt(sender, d), "DeviceStatusChanged", d)
           /\ \A name \in NewNameInputs, location \in NewLocationInputs :
                  OneEventOrNone(updateDeviceReceipt(sender, d, name, location), "DeviceUpdated", d)
           /\ \A v \in Address :
                  /\ OneEventOrNone(revokeAccessReceipt(sender, d, v), "AccessRevoked", d)
                  /\ \A duration \in DurationInputs :
                         OneEventOrNone(grantAccessReceipt(sender, d, v, duration), "AccessGranted", d)

\* The event of a successful call belongs to a call that changed the state as
\* reported: the grant's expiresAt is the index entry written, the new device
\* is on record, the toggle's flag is the flag stored.
C28_EventMirrorsState ==
    /\ \A sender \in Senders, d \in Registered, v \in Address, duration \in DurationInputs :
           (GrantAccessError(sender, d, v, duration) = "" /\ grantAccess(sender, d, v, duration)) =>
               /\ grantAccessReceipt(sender, d, v, duration).logs[1].expiresAt = ViewerAccessAt(d, v)'
               /\ grantAccessReceipt(sender, d, v, duration).logs[1].viewer = v
    /\ \A sender \in Senders, d \in Registered :
           (ToggleDeviceStatusError(sender, d) = "" /\ toggleDeviceStatus(sender, d)) =>
               toggleDeviceStatusReceipt(sender, d).logs[1].isActive = DeviceAt(d)'.isActive
    /\ \A sender \in Senders, did \in DidInputs, name \in NameInputs, location \in LocationInputs :
           (RegisterDeviceError(sender, did, name) = "" /\ registerDevice(sender, did, name, location)) =>
               LET e == registerDeviceReceipt(sender, did, name, location).logs[1]
               IN  /\ e.deviceId \in DOMAIN devices'
                   /\ devices'[e.deviceId].owner = e.owner
                   /\ devices'[e.deviceId].did = e.did

C28_EventLog == []C28_OneEventPerCall /\ [][Step(C28_EventMirrorsState)]_vars

\* A live grant of 365 days on a device whose owner could, in this state, send
\* a successful call of each of the four kinds that act on a registered device.
C28_Witness ==
    \E d \in Registered, v \in Senders :
        /\ ViewerAccessAt(d, v) = now + 31536000
        /\ v # devices[d].owner
        /\ grantAccessReceipt(devices[d].owner, d, v, 1).logs[1].expiresAt = now + 1
        /\ revokeAccessReceipt(devices[d].owner, d, v).logs[1].kind = "AccessRevoked"
        /\ updateDeviceReceipt(devices[d].owner, d, "n2", "l2").logs[1].kind = "DeviceUpdated"
        /\ toggleDeviceStatusReceipt(devices[d].owner, d).logs[1].isActive = FALSE
        /\ grantAccessReceipt(v, d, v, 1).logs = <<>>

(***************************************************************************)
(* C29. Backend: an error response has status 400 for a validation         *)
(* failure, 403 for an authorization failure and 404 for an unknown device *)
(* or pass; a grant or a revoke attempted by a caller who is not the owner *)
(* is answered 403.  As first stated, with 400 for authorization failures: *)
(* C29_AsClaimed.                                                          *)
(***************************************************************************)
\* The statuses of the requests by cause, the authorization failure answered
\* with the given status.
StatusByCause(forbidden) ==
    /\ \A deviceId \in DeviceIdBodies, viewer \in ViewerBodies, duration \in DurationBodies,
          grantedBy \in ActorBodies :
           LET status == GrantOutcome(deviceId, viewer, duration, grantedBy).response.status
           IN  /\ (~Truthy(deviceId) \/ ~Truthy(viewer) \/ ~Truthy(duration) \/ ~Truthy(grantedBy)) =>
                      status = 400
               /\ (Truthy(viewer) /\ Truthy(duration) /\ Truthy(grantedBy) /\ Truthy(deviceId)
                      /\ DeviceById(parseInt(deviceId)) = 0) => status = 404
               /\ (Truthy(viewer) /\ Truthy(duration) /\ BackendNonOwnerGrant(deviceId, grantedBy)) =>
                      status = forbidden
               /\ status \in {200, 400, forbidden, 404, 500}
               /\ status = 500 => (~HasToLowerCase(grantedBy) \/ ~HasToLowerCase(viewer))
    /\ \A passId \in PassIdParams, revokedBy \in ActorBodies \cup {Str("")} :
           LET status == RevokeOutcome(passId, revokedBy).response.status
           IN  /\ PassByPassId(passId) = 0 => status = 404
               /\ BackendNonOwnerRevoke(passId, revokedBy) => status = forbidden
               /\ status \in {200, forbidden, 404, 500}
               /\ status = 500 => ~HasToLowerCase(revokedBy)
    /\ \A did \in DidBodies, model \in FieldBodies, owner \in ActorBodies :
           LET status == IssueOutcome(did, Str("k"), Str("m"), model, owner).response.status
           IN  /\ (~Truthy(did) \/ ~Truthy(model) \/ ~Truthy(owner)) => status = 400
               /\ (Truthy(did) /\ DeviceByDid(did.s) # 0) => status \in {400}
               /\ status \in {200, 400, 500}
               /\ status = 500 => ~HasToLowerCase(owner)
    /\ \A deviceDid \in DidBodies, viewerAddress \in ViewerBodies \cup {Str(SampleViewer2)} :
           LET status == PostStreamAccess(deviceDid, viewerAddress).status
           IN  /\ (~Truthy(deviceDid) \/ ~Truthy(viewerAddress)) => status = 400
               /\ (Truthy(deviceDid) /\ Truthy(viewerAddress) /\ DeviceByDid(deviceDid.s) = 0) =>
                      status = 404
               /\ (Truthy(deviceDid) /\ DeviceByDid(deviceDid.s) # 0 /\ HasToLowerCase(viewerAddress)
                      /\ Truthy(viewerAddress) /\ ValidPass(deviceDid.s, viewerAddress.s) = 0) =>
                      status = forbidden
               /\ status \in {200, 400, forbidden, 404, 500}
               /\ status = 500 => ~HasToLowerCase(viewerAddress)
    /\ \A deviceDid \in {DeviceDid1, NewDid}, viewerAddress \in {SampleViewer1, SampleViewer2} :
           /\ GetStream(deviceDid, <<>>).status = 401
           /\ LET status == GetStream(deviceDid, <<"Bearer ", viewerAddress>>).status
              IN  /\ DeviceByDid(deviceDid) = 0 => status = 404
                  /\ (DeviceByDid(deviceDid) # 0 /\ ValidPass(deviceDid, viewerAddress) = 0) =>
                         status = forbidden
                  /\ status \in {200, forbidden, 404}

C29_AsClaimed == StatusByCause(400)

C29_ErrorStatuses == StatusByCause(403)

\* A store with a pass added by a grant request: a grant and a revoke by the
\* owner of another device are both answered 403, a revoke of a pass id not
\* yet issued 404, a grant without viewer 400.
C29_Witness ==
    /\ db.passIdCounter > 2
    /\ Len(db.accessPasses) > 2
    /\ GrantOutcome(Num(1), Str(SampleViewer1), Num(1), Str(SampleOwnerB)).response.status = 403
    /\ RevokeOutcome(PassIdOf(3), Str(SampleOwnerB)).response.status = 403
    /\ RevokeOutcome(PassIdOf(db.passIdCounter + 1), Str(SampleOwnerB)).response.status = 404
    /\ GrantOutcome(Num(1), Undefined, Num(1), Str(SampleOwnerB)).response.status = 400

(***************************************************************************)
(* C30. Contract: getDeviceByIndex(i) fails with "Index out of bounds" for *)
(* every i >= getTotalDevices and, for every i < getTotalDevices, returns  *)
(* the id of the (i+1)-th successfully registered device; the value        *)
(* returned for an i in range never changes.                               *)
(***************************************************************************)
C30_InRangeOrError ==
    \A i \in IndexInputs :
        IF i >= getTotalDevices
        THEN getDeviceByIndex(i).err = "Index out of bounds"
        ELSE /\ getDeviceByIndex(i).err = ""
             /\ deviceExists(getDeviceByIndex(i).deviceId)
             /\ \A j \in IndexInputs :
                    (i < j /\ j < getTotalDevices) =>
                        /\ getDeviceByIndex(j).deviceId # getDeviceByIndex(i).deviceId
                        /\ DeviceAt(getDeviceByIndex(i).deviceId).registeredAt <=
                               DeviceAt(getDeviceByIndex(j).deviceId).registeredAt

\* The device a registration creates is returned for the first index that was
\* out of range, and every index in range returns what it returned before.
C30_EnumerationStep ==
    /\ \A i \in IndexInputs :
           i < getTotalDevices => getDeviceByIndex(i)' = getDeviceByIndex(i)
    /\ \A sender \in Senders, did \in DidInputs, name \in NameInputs, location \in LocationInputs :
           (RegisterDeviceError(sender, did, name) = "" /\ registerDevice(sender, did, name, location)) =>
               \E i \in IndexInputs :
                   /\ i = getTotalDevices
                   /\ getDeviceByIndex(i).err = "Index out of bounds"
                   /\ getDeviceByIndex(i)' = [err |-> "", deviceId |-> DeviceIdOf(did, sender, now)]

C30_Enumeration == []C30_InRangeOrError /\ [][Step(C30_EnumerationStep)]_vars

\* Two devices registered in different blocks, the first since deactivated.
C30_Witness ==
    /\ getTotalDevices = 2
    /\ getDeviceByIndex(0).err = "" /\ getDeviceByIndex(1).err = ""
    /\ getDeviceByIndex(2).err = "Index out of bounds"
    /\ ~DeviceAt(getDeviceByIndex(0).deviceId).isActive
    /\ DeviceAt(getDeviceByIndex(0).deviceId).registeredAt <
           DeviceAt(getDeviceByIndex(1).deviceId).registeredAt

(***************************************************************************)
(* C31. Contract: access is obtainable only through the owner. Whenever    *)
(* hasAccess(d, v) holds for a viewer v who is not the owner of d, the     *)
(* history of d holds a pass for v that a grantAccess of d's owner created *)
(* and whose expiresAt is later than now; and no call made by an account   *)
(* that is not the owner of d changes hasAccess(d, v) for any v.           *)
(***************************************************************************)
C31_AccessFromOwnerGrant ==
    \A d \in Registered, v \in Address :
        (v # devices[d].owner /\ hasAccess(d, v)) =>
            \E i \in 1..Len(getDeviceAccessPasses(d)) :
                /\ getDeviceAccessPasses(d)[i].viewer = v
                /\ getDeviceAccessPasses(d)[i].device_owner = devices[d].owner
                /\ getDeviceAccessPasses(d)[i].expiresAt > now

\* This step is a call of sender: any function, any arguments, accepted or not.
CallBy(sender) ==
    \/ \E did \in DidInputs, name \in NameInputs, location \in LocationInputs :
          registerDevice(sender, did, name, location)
    \/ \E d \in DeviceIdInputs, viewer \in Address, duration \in DurationInputs :
          grantAccess(sender, d, viewer, duration)
    \/ \E d \in DeviceIdInputs, viewer \in Address : revokeAccess(sender, d, viewer)
    \/ \E d \in DeviceIdInputs, name \in NewNameInputs, location \in NewLocationInputs :
          updateDevice(sender, d, name, location)
    \/ \E d \in DeviceIdInputs : toggleDeviceStatus(sender, d)

C31_NonOwnerCallsKeepAccess ==
    \A d \in Registered :
        \/ \A v \in Address : hasAccess(d, v)' = hasAccess(d, v)
        \/ \A sender \in Senders : sender # devices[d].owner => ~CallBy(sender)

C31_AccessOnlyThroughOwner ==
    []C31_AccessFromOwnerGrant /\ [][Step(C31_NonOwnerCallsKeepAccess)]_vars

\* A viewer who holds access to another owner's device and owns a device itself,
\* so that it has calls that are accepted and calls that are refused.
C31_Witness ==
    \E d \in Registered, e \in Registered, v \in Senders :
        /\ v # devices[d].owner
        /\ hasAccess(d, v)
        /\ devices[e].owner = v
        /\ revokeAccessReceipt(v, d, v).err = "Not device owner"
        /\ toggleDeviceStatusReceipt(v, e).err = ""

(***************************************************************************)
(* C32. Contract: deactivating a device does not affect existing access.   *)
(* toggleDeviceStatus leaves the access index and the pass history as they *)
(* are; while the device is inactive hasAccess(d, v) stays true for a      *)
(* viewer whose index entry has not expired, until the owner revokes it;   *)
(* and on an inactive device the owner's revokeAccess and updateDevice     *)
(* (with a name that is not empty) still succeed and take effect.          *)
(***************************************************************************)
C32_OwnerCallsAccepted ==
    \A d \in Registered :
        ~devices[d].isActive =>
            /\ \A v \in Address : revokeAccessReceipt(devices[d].owner, d, v).err = ""
            /\ \A name \in NewNameInputs, location \in NewLocationInputs :
                   Len(name) > 0 => updateDeviceReceipt(devices[d].owner, d, name, location).err = ""

C32_ToggleKeepsAccess ==
    \A d \in Registered :
        ToggleStep(d) =>
            /\ UNCHANGED <<viewerAccess, deviceAccessPasses>>
            /\ devices'[d].isActive = ~devices[d].isActive
            /\ \A v \in Address :
                   /\ hasAccess(d, v)' = hasAccess(d, v)
                   /\ getAccessExpiration(d, v)' = getAccessExpiration(d, v)

C32_InactiveStep ==
    \A d \in Registered :
        ~devices'[d].isActive =>
            /\ \A v \in Address :
                   \/ ~(hasAccess(d, v) /\ getAccessExpiration(d, v) > now')
                   \/ hasAccess(d, v)'
                   \/ RevokeStep(d, v)
            /\ \A v \in Address :
                   revokeAccess(devices[d].owner, d, v) => getAccessExpiration(d, v)' = 0
            /\ \A name \in NewNameInputs, location \in NewLocationInputs :
                   (Len(name) > 0 /\ updateDevice(devices[d].owner, d, name, location)) =>
                       (devices'[d].name = name /\ devices'[d].location = location)

C32_DeactivationKeepsAccess ==
    /\ []C32_OwnerCallsAccepted
    /\ [][Step(C32_ToggleKeepsAccess /\ C32_InactiveStep)]_vars

\* An inactive device on which a viewer's pass, granted in an earlier block, is
\* still good.
C32_Witness ==
    \E d \in Registered, v \in Senders :
        /\ ~devices[d].isActive
        /\ v # devices[d].owner
        /\ hasAccess(d, v)
        /\ LastPass(d, v).grantedAt < now
        /\ revokeAccessReceipt(devices[d].owner, d, v).err = ""
        /\ grantAccessReceipt(devices[d].owner, d, v, 1).err = "Device is not active"

(***************************************************************************)
(* C33. Contract: for a device id that was never registered, hasAccess,    *)
(* getDevice, getDeviceAccessPasses, grantAccess, revokeAccess,            *)
(* updateDevice and toggleDeviceStatus all fail with "Device does not      *)
(* exist", whoever calls (the existence check precedes the ownership       *)
(* check), and change no state, while getAccessExpiration returns 0; so    *)
(* the access index of an unregistered id is 0 for every viewer in every   *)
(* reachable state.                                                        *)
(***************************************************************************)
\* The ids a registration of the model can create, and the id of no device.
CandidateIds ==
    {DeviceIdOf(did, sender, t) : did \in DidInputs \ {""}, sender \in Senders, t \in BlockTimes}
        \cup {UnknownId}

\* Of these, the ids a registration in the present block would create, and the
\* id of no device.
PresentIds == {DeviceIdOf(did, sender, now) : did \in DidInputs \ {""}, sender \in Senders} \cup {UnknownId}

DoesNotExist == [err |-> "Device does not exist", logs |-> <<>>]

C33_UnregisteredRejected ==
    /\ \A d \in CandidateIds \ Registered :
           /\ hasAccessError(d) = "Device does not exist"
           /\ getDeviceError(d) = "Device does not exist"
           /\ getDeviceAccessPassesError(d) = "Device does not exist"
           /\ \A v \in Address : getAccessExpiration(d, v) = 0
           /\ \A k \in DOMAIN viewerAccess : k[1] # d
           /\ d \notin DOMAIN deviceAccessPasses
    /\ \A d \in PresentIds \ Registered, sender \in Senders :
           /\ \A viewer \in Address, duration \in DurationInputs :
                  grantAccessReceipt(sender, d, viewer, duration) = DoesNotExist
           /\ \A viewer \in Address : revokeAccessReceipt(sender, d, viewer) = DoesNotExist
           /\ \A name \in NewNameInputs, location \in NewLocationInputs :
                  updateDeviceReceipt(sender, d, name, location) = DoesNotExist
           /\ toggleDeviceStatusReceipt(sender, d) = DoesNotExist

\* The calls of the model take their id from DeviceIdInputs.
C33_UnregisteredUnchanged ==
    \A d \in DeviceIdInputs \ Registered, sender \in Senders :
        (\/ \E viewer \in Address, duration \in DurationInputs : grantAccess(sender, d, viewer, duration)
         \/ \E viewer \in Address : revokeAccess(sender, d, viewer)
         \/ \E name \in NewNameInputs, location \in NewLocationInputs :
                updateDevice(sender, d, name, location)
         \/ toggleDeviceStatus(sender, d))
            => UNCHANGED vars

C33_UnregisteredId == []C33_UnregisteredRejected /\ [][Step(C33_UnregisteredUnchanged)]_vars

\* One device with a pass is registered; the id the same account and DID would
\* get in the present, later block is not.
C33_Witness ==
    \E sender \in Senders, v \in Senders :
        /\ now > Genesis
        /\ DeviceIdOf("d1", sender, Genesis) \in Registered
        /\ getAccessExpiration(DeviceIdOf("d1", sender, Genesis), v) > now
        /\ DeviceIdOf("d1", sender, now) \notin Registered
        /\ revokeAccessReceipt(sender, DeviceIdOf("d1", sender, now), v) = DoesNotExist
        /\ getAccessExpiration(DeviceIdOf("d1", sender, now), v) = 0

(***************************************************************************)
(* C34. Backend: a revoke request for an existing pass that names no       *)
(* revoking identity (revokedBy absent) never revokes: it is answered with *)
(* an error whose body carries the generic failure message and nothing of  *)
(* the exception, and the pass's expiresAt and every other stored pass     *)
(* stay as they are.                                                       *)
(***************************************************************************)
\* The error texts that tell nothing about the failure inside the server.
GenericMessages == {"Internal server error"}

C34_AnsweredGenerically ==
    \A passId \in PassIdParams :
        PassByPassId(passId) # 0 =>
            /\ RevokeOutcome(passId, Undefined).response.status >= 400
            /\ RevokeOutcome(passId, Undefined).response.error \in GenericMessages
            /\ RevokeOutcome(passId, Undefined).db = db

C34_NothingRevoked ==
    \A passId \in PassIdParams :
        (PassByPassId(passId) # 0 /\ DeleteAccessPass(passId, Undefined)) =>
            /\ db'.accessPasses = db.accessPasses
            /\ db' = db

C34_AnonymousRevokeFails == []C34_AnsweredGenerically /\ [][Step(C34_NothingRevoked)]_vars

\* A pass stored by a grant request and still valid after the clock has moved:
\* its owner's revoke would be accepted, one without revokedBy is not.
C34_Witness ==
    /\ system = "backend"
    /\ clock > BootTime
    /\ db.passIdCounter > 2
    /\ PassByPassId(PassIdOf(3)) = 3
    /\ db.accessPasses[3].expiresAt > clock
    /\ RevokeOutcome(PassIdOf(3), Str(db.accessPasses[3].grantedBy)).response.status = 200
    /\ RevokeOutcome(PassIdOf(3), Undefined).response.status = 500

(***************************************************************************)
(* C35. Backend: revocation is a logical change, not a removal.  A         *)
(* successful DELETE /api/access-passes/:passId leaves the number of       *)
(* stored passes as it is, sets the expiresAt of the pass with that passId *)
(* to the current time and changes no other field and no other pass; and   *)
(* the revoked pass satisfies expiresAt > now at no later time: no request *)
(* and no passage of time makes a pass valid that was not.                 *)
(***************************************************************************)
C35_RevokeStep ==
    \A passId \in PassIdParams, revokedBy \in ActorBodies :
        (RevokeOutcome(passId, revokedBy).response.status = 200 /\ DeleteAccessPass(passId, revokedBy)) =>
            /\ Len(db'.accessPasses) = Len(db.accessPasses)
            /\ \A i \in DOMAIN db.accessPasses :
                   IF db.accessPasses[i].passId = passId
                   THEN /\ db'.accessPasses[i] = [db.accessPasses[i] EXCEPT !.expiresAt = clock]
                        /\ ~(db'.accessPasses[i].expiresAt > clock')
                   ELSE db'.accessPasses[i] = db.accessPasses[i]
            /\ db'.devices = db.devices
            /\ db'.deviceIdCounter = db.deviceIdCounter
            /\ db'.passIdCounter = db.passIdCounter

C35_NeverValidAgain ==
    /\ Len(db'.accessPasses) >= Len(db.accessPasses)
    /\ \A i \in DOMAIN db.accessPasses :
           /\ db'.accessPasses[i].passId = db.accessPasses[i].passId
           /\ ~(db.accessPasses[i].expiresAt > clock) => ~(db'.accessPasses[i].expiresAt > clock')

C35_RevocationIsLogical == [][Step(C35_RevokeStep /\ C35_NeverValidAgain)]_vars

\* The sample pass APASS-001 revoked one second after the start, seen at the time
\* it would have expired, a later grant stored behind it.
C35_Witness ==
    /\ system = "backend"
    /\ clock = BootTime + 1800000
    /\ Len(db.accessPasses) = 3
    /\ db.accessPasses[1].passId = PassIdOf(1)
    /\ db.accessPasses[1].expiresAt = BootTime + 1000
    /\ PostStreamAccess(Str(DeviceDid1), Str(SampleViewer1)).status = 403

(***************************************************************************)
(* C36. Backend: after any sequence of POST /api/devices/issue requests no *)
(* two devices of db.devices share a DID and no two share a numeric id; an *)
(* issue request with a DID that already exists, or with did, pubKey,      *)
(* make, model or owner missing, is rejected and leaves db.devices and     *)
(* deviceIdCounter as they are.                                            *)
(***************************************************************************)
C36_DevicesDistinct ==
    /\ \A i, j \in DOMAIN db.devices :
           (db.devices[i].did = db.devices[j].did \/ db.devices[i].id = db.devices[j].id) => i = j
    /\ \A i \in DOMAIN db.devices : db.devices[i].id <= db.deviceIdCounter

\* One of the required fields is absent from the body.
FieldMissing(did, pubKey, make, model, owner) ==
    Undefined \in {did, pubKey, make, model, owner}

C36_IssueRejected ==
    \A did \in DidBodies, pubKey \in FieldBodies, make \in FieldBodies, model \in FieldBodies,
       owner \in ActorBodies :
        (\/ FieldMissing(did, pubKey, make, model, owner)
         \/ \E i \in DOMAIN db.devices : db.devices[i].did = did.s) =>
            /\ IssueOutcome(did, pubKey, make, model, owner).response.status = 400
            /\ IssueOutcome(did, pubKey, make, model, owner).db.devices = db.devices
            /\ IssueOutcome(did, pubKey, make, model, owner).db.deviceIdCounter = db.deviceIdCounter

\* A step that changes db.devices appends one device under an id and a DID that
\* no stored device has.
C36_IssueStep ==
    \/ db'.devices = db.devices
    \/ /\ Len(db'.devices) = Len(db.devices) + 1
       /\ SubSeq(db'.devices, 1, Len(db.devices)) = db.devices
       /\ db'.deviceIdCounter = db.deviceIdCounter + 1
       /\ db'.devices[Len(db'.devices)].id = db'.deviceIdCounter
       /\ \A i \in DOMAIN db.devices : db.devices[i].did # db'.devices[Len(db'.devices)].did

HasValidPass(deviceDid, viewer) ==
    \E i \in DOMAIN db.accessPasses :
        /\ db.accessPasses[i].deviceDid = deviceDid
        /\ toLowerCase(db.accessPasses[i].viewer) = toLowerCase(viewer)
        /\ db.accessPasses[i].expiresAt > clock

StreamDids    == {DeviceDid1, DeviceDid2, NewDid, UnknownDid}
StreamViewers == {SampleViewer1, "0xv1", SampleViewer2, SampleOwnerB}

C37_ChecksAgree ==
    \A deviceDid \in StreamDids, viewer \in StreamViewers :
        /\ PostStreamAccess(Str(deviceDid), Str(viewer)).status = 200 <=> HasValidPass(deviceDid, viewer)
        /\ GetStream(deviceDid, <<"Bearer ", viewer>>).status = 200 <=> HasValidPass(deviceDid, viewer)

====
